---- MODULE Spec2Model ----
(***************************************************************************)
(* A model of two parts of the editor core:                                *)
(*   - the gap buffer SplitVector<T> (src/src/EditLexers/stlGo.c), with T  *)
(*     a trivially copyable element type such as char; its behaviours are  *)
(*     those of Spec, and SpecRoom takes the loop of RoomFor a pass at a   *)
(*     time;                                                               *)
(*   - the R lexer ColouriseRDoc (src/scintilla/lexers/LexR.cxx): SpecLex  *)
(*     lexes a document whole and again in two calls, SpecTotal runs one   *)
(*     call an iteration at a time from any line in any state,             *)
(*     SpecScratch a call from position 0 in the default style, SpecPack   *)
(*     packs and reads back a line state;                                  *)
(*   - the folder FoldSimpleDoc of the same file: SpecFold lexes a         *)
(*     document and folds it by calls on line ranges, an iteration of the  *)
(*     loop at a time.                                                     *)
(***************************************************************************)
EXTENDS Integers, Sequences, FiniteSets, TLC

VARIABLES
    body,           \* std::vector<T> body, as a sequence; body[i + 1] is the C++ body[i]
    lengthBody,     \* ptrdiff_t lengthBody
    part1Length,    \* ptrdiff_t part1Length
    gapLength,      \* ptrdiff_t gapLength
    growSize,       \* ptrdiff_t growSize
    ref,            \* ghost: a plain sequence subjected to the same in-range edits
    ub,             \* ghost: a call has had undefined behaviour
    doc,            \* the document handed to the lexer, a sequence of character codes
    pc,             \* where the lexing or folding scenario stands
    lx,             \* the lexer: StyleContext, styler and the locals of ColouriseRDoc
    whole,          \* SpecLex: the lexer as the from-scratch run of the whole document
                    \* left it; SpecTotal: the arguments of the call; SpecFold: the
                    \* locals of FoldSimpleDoc and the levels behind styler
    kLine           \* the line a partial run stops at or starts from; SpecFold: the
                    \* first line no call has folded yet

svVars == <<body, lengthBody, part1Length, gapLength, growSize>>
lexVars == <<doc, pc, lx, whole, kLine>>
vars == <<body, lengthBody, part1Length, gapLength, growSize, ref, ub,
          doc, pc, lx, whole, kLine>>

(***************************************************************************)
(* Bounds of the model.                                                    *)
(***************************************************************************)
\* the largest logical length the model lets the buffer reach
MaxLen == 2
\* the largest size asked of ReAllocate
MaxAlloc == 3

\* T{}: the value of the member `empty' and of every value-initialised element
empty == 0
\* the element values: T{} and one other
Elems == {empty, 1}
\* positions and lengths handed to the operations, out-of-range ones included
Positions == (0 - 1)..(MaxLen + 1)
Lengths == (0 - 1)..(MaxLen + 1)
\* the arrays handed to InsertFromArray
Arrays == [1..2 -> Elems]
\* growth increments handed to SetGrowSize
GrowSizes == {1, 2}

(***************************************************************************)
(* The buffer as a value: the data members of SplitVector, and `thrown',   *)
(* which marks a value left by an operation that ended with an exception.  *)
(***************************************************************************)
SV == [body |-> body, lengthBody |-> lengthBody, part1Length |-> part1Length,
       gapLength |-> gapLength, growSize |-> growSize, thrown |-> FALSE]

Zeros(n) == [i \in 1..n |-> empty]

\* mutant: Init() that leaves the growth increment as it is
SplitVectorInit_KeepsGrowSize(sv) ==
    [sv EXCEPT !.body = <<>>, !.lengthBody = 0, !.part1Length = 0,
               !.gapLength = 0]

\* Init(): the state the constructor leaves too
SplitVectorInit(sv) ==
    [sv EXCEPT !.body = <<>>, !.lengthBody = 0, !.part1Length = 0,
               !.gapLength = 0, !.growSize = 8]

\* mutant: GapTo that records the new gap position and moves no element
GapTo_NoMove(sv, position) ==
    [sv EXCEPT !.part1Length = position]

\* mutant: GapTo whose move toward the start copies front to back (std::move
\* in place of std::move_backward), so an element is overwritten before it is
\* read when the range is longer than the gap
GapTo_ForwardCopy(sv, position) ==
    IF position = sv.part1Length THEN sv
    ELSE IF position < sv.part1Length
    THEN [sv EXCEPT
            !.body = [i \in 1..Len(sv.body) |->
                        IF i - 1 >= position + sv.gapLength
                           /\ i - 1 < sv.part1Length + sv.gapLength
                        THEN IF sv.gapLength = 0 THEN sv.body[i]
                             ELSE sv.body[position + 1
                                    + ((i - 1 - position - sv.gapLength)
                                         % sv.gapLength)]
                        ELSE sv.body[i]],
            !.part1Length = position]
    ELSE [sv EXCEPT
            !.body = [i \in 1..Len(sv.body) |->
                        IF i - 1 >= sv.part1Length /\ i - 1 < position
                        THEN sv.body[i + sv.gapLength]
                        ELSE sv.body[i]],
            !.part1Length = position]

\* GapTo for a position within the buffer: std::move_backward / std::move of
\* trivially copyable elements, which leave the source slots as they were
GapTo(sv, position) ==
    IF position = sv.part1Length THEN sv
    ELSE IF position < sv.part1Length
    THEN [sv EXCEPT
            !.body = [i \in 1..Len(sv.body) |->
                        IF i - 1 >= position + sv.gapLength
                           /\ i - 1 < sv.part1Length + sv.gapLength
                        THEN sv.body[i - sv.gapLength]
                        ELSE sv.body[i]],
            !.part1Length = position]
    ELSE [sv EXCEPT
            !.body = [i \in 1..Len(sv.body) |->
                        IF i - 1 >= sv.part1Length /\ i - 1 < position
                        THEN sv.body[i + sv.gapLength]
                        ELSE sv.body[i]],
            !.part1Length = position]

\* the number of elements GapTo hands to std::move_backward / std::move: the
\* length of the source range [first, last) of the call it makes
GapToMoved(sv, position) ==
    IF position = sv.part1Length THEN 0
    ELSE IF position < sv.part1Length
    THEN sv.part1Length - position
    ELSE (sv.gapLength + position) - (sv.part1Length + sv.gapLength)

\* what undefined behaviour can leave when GapTo is called with a position
\* below 0: std::move_backward reads before body.data(); the slots written
\* from there hold an arbitrary value (junk), and the writes that fall before
\* body.data() are outside the buffer
GapToBelowStart(sv, position, junk) ==
    [sv EXCEPT
        !.body = [i \in 1..Len(sv.body) |->
                    IF i - 1 >= position + sv.gapLength
                       /\ i - 1 < sv.part1Length + sv.gapLength
                    THEN IF i - sv.gapLength < 1 THEN junk
                         ELSE sv.body[i - sv.gapLength]
                    ELSE sv.body[i]],
        !.part1Length = position]

\* mutant: ReAllocate that grows the vector with the gap left where it is
ReAllocate_GapInPlace(sv, newSize) ==
    IF newSize < 0 THEN [sv EXCEPT !.thrown = TRUE]
    ELSE IF newSize > Len(sv.body)
    THEN [sv EXCEPT !.gapLength = sv.gapLength + (newSize - Len(sv.body)),
                    !.body = sv.body \o Zeros(newSize - Len(sv.body))]
    ELSE sv

ReAllocate(sv, newSize) ==
    IF newSize < 0 THEN [sv EXCEPT !.thrown = TRUE]
    ELSE IF newSize > Len(sv.body)
    THEN LET g == GapTo(sv, sv.lengthBody)
         IN  [g EXCEPT !.gapLength = g.gapLength + (newSize - Len(sv.body)),
                       !.body = g.body \o Zeros(newSize - Len(sv.body))]
    ELSE sv

\* the loop of RoomFor: while (growSize < body.size() / 6) growSize *= 2
RECURSIVE GrowLoop(_, _)
GrowLoop(grow, size) ==
    IF grow < size \div 6 THEN GrowLoop(grow * 2, size) ELSE grow

RoomFor(sv, insertionLength) ==
    IF sv.gapLength <= insertionLength
    THEN LET grow == GrowLoop(sv.growSize, Len(sv.body))
         IN  ReAllocate([sv EXCEPT !.growSize = grow],
                        Len(sv.body) + insertionLength + grow)
    ELSE sv

ValueAt(sv, position) ==
    IF position < sv.part1Length
    THEN IF position < 0 THEN empty ELSE sv.body[position + 1]
    ELSE IF position >= sv.lengthBody THEN empty
         ELSE sv.body[sv.gapLength + position + 1]

Length(sv) == sv.lengthBody

SetValueAt(sv, position, v) ==
    IF position < sv.part1Length
    THEN IF position < 0 THEN sv
         ELSE [sv EXCEPT !.body[position + 1] = v]
    ELSE IF position >= sv.lengthBody THEN sv
         ELSE [sv EXCEPT !.body[sv.gapLength + position + 1] = v]

\* the tail shared by the four insertions, once RoomFor has returned:
\* GapTo(position), write the elements s into the gap, account for them
FillGap(sv, position, s) ==
    IF sv.thrown THEN sv
    ELSE LET g == GapTo(sv, position)
         IN  [g EXCEPT
                !.body = [i \in 1..Len(g.body) |->
                            IF i - 1 >= g.part1Length /\ i - 1 < g.part1Length + Len(s)
                            THEN s[i - g.part1Length]
                            ELSE g.body[i]],
                !.lengthBody = g.lengthBody + Len(s),
                !.part1Length = g.part1Length + Len(s),
                !.gapLength = g.gapLength - Len(s)]

Insert(sv, position, v) ==
    IF (position < 0) \/ (position > sv.lengthBody) THEN sv
    ELSE FillGap(RoomFor(sv, 1), position, <<v>>)

\* mutant: InsertValue that makes room before it checks the position
InsertValue_RoomFirst(sv, position, insertLength, v) ==
    IF insertLength > 0
    THEN LET r == RoomFor(sv, insertLength)
         IN  IF (position < 0) \/ (position > sv.lengthBody) THEN r
             ELSE FillGap(r, position, [i \in 1..insertLength |-> v])
    ELSE sv

InsertValue(sv, position, insertLength, v) ==
    IF insertLength > 0
    THEN IF (position < 0) \/ (position > sv.lengthBody) THEN sv
         ELSE FillGap(RoomFor(sv, insertLength), position,
                      [i \in 1..insertLength |-> v])
    ELSE sv

InsertEmpty(sv, position, insertLength) ==
    IF insertLength > 0
    THEN IF (position < 0) \/ (position > sv.lengthBody) THEN sv
         ELSE FillGap(RoomFor(sv, insertLength), position, Zeros(insertLength))
    ELSE sv

\* mutant: InsertFromArray that writes at the gap without moving it
InsertFromArray_NoGapTo(sv, positionToInsert, s, positionFrom, insertLength) ==
    IF insertLength > 0
    THEN IF (positionToInsert < 0) \/ (positionToInsert > sv.lengthBody) THEN sv
         ELSE LET r == RoomFor(sv, insertLength)
              IN  FillGap(r, r.part1Length,
                          [i \in 1..insertLength |-> s[positionFrom + i]])
    ELSE sv

\* s + positionFrom is s[positionFrom + 1] of the sequence s
InsertFromArray(sv, positionToInsert, s, positionFrom, insertLength) ==
    IF insertLength > 0
    THEN IF (positionToInsert < 0) \/ (positionToInsert > sv.lengthBody) THEN sv
         ELSE FillGap(RoomFor(sv, insertLength), positionToInsert,
                      [i \in 1..insertLength |-> s[positionFrom + i]])
    ELSE sv

\* mutant: DeleteRange that widens the gap without moving it
DeleteRange_NoGapTo(sv, position, deleteLength) ==
    IF (position < 0) \/ ((position + deleteLength) > sv.lengthBody) THEN sv
    ELSE IF (position = 0) /\ (deleteLength = sv.lengthBody)
    THEN SplitVectorInit(sv)
    ELSE IF deleteLength > 0
    THEN [sv EXCEPT !.lengthBody = sv.lengthBody - deleteLength,
                    !.gapLength = sv.gapLength + deleteLength]
    ELSE sv

DeleteRange(sv, position, deleteLength) ==
    IF (position < 0) \/ ((position + deleteLength) > sv.lengthBody) THEN sv
    ELSE IF (position = 0) /\ (deleteLength = sv.lengthBody)
    THEN SplitVectorInit(sv)
    ELSE IF deleteLength > 0
    THEN LET g == GapTo(sv, position)
         IN  [g EXCEPT !.lengthBody = g.lengthBody - deleteLength,
                       !.gapLength = g.gapLength + deleteLength]
    ELSE sv

Delete(sv, position) == DeleteRange(sv, position, 1)

DeleteAll(sv) == DeleteRange(sv, 0, sv.lengthBody)

BufferPointer(sv) ==
    LET r == RoomFor(sv, 1)
    IN  IF r.thrown THEN r
        ELSE LET g == GapTo(r, r.lengthBody)
             IN  [g EXCEPT !.body[g.lengthBody + 1] = empty]

\* RangePointer moves the gap when the range overlaps it
RangePointerMoves(sv, position, rangeLength) ==
    position < sv.part1Length /\ (position + rangeLength) > sv.part1Length

\* the buffer RangePointer leaves, for a position within the buffer
RangePointer(sv, position, rangeLength) ==
    IF RangePointerMoves(sv, position, rangeLength) THEN GapTo(sv, position) ELSE sv

\* mutant: RangePointer that forgets the gap before a range it has moved
RangePointerData_NoSkip(sv, position, rangeLength) ==
    IF position < sv.part1Length
    THEN position
    ELSE position + sv.gapLength

\* the pointer RangePointer returns, as an index into body
RangePointerData(sv, position, rangeLength) ==
    IF position < sv.part1Length
    THEN IF (position + rangeLength) > sv.part1Length
         THEN position + sv.gapLength
         ELSE position
    ELSE position + sv.gapLength

(***************************************************************************)
(* The reference sequence.                                                 *)
(***************************************************************************)
RefInsert(r, p, s) == SubSeq(r, 1, p) \o s \o SubSeq(r, p + 1, Len(r))
RefDelete(r, p, n) == SubSeq(r, 1, p) \o SubSeq(r, p + n + 1, Len(r))
RefSet(r, p, v) == [r EXCEPT ![p + 1] = v]
RefAt(r, p) == IF p >= 0 /\ p < Len(r) THEN r[p + 1] ELSE empty

\* the logical content: what Length() and ValueAt() show
Logical(sv) == [p \in 1..Length(sv) |-> ValueAt(sv, p - 1)]

\* assign the data members from a buffer value
Becomes(sv) ==
    /\ body' = sv.body
    /\ lengthBody' = sv.lengthBody
    /\ part1Length' = sv.part1Length
    /\ gapLength' = sv.gapLength
    /\ growSize' = sv.growSize

InRange(position) == position >= 0 /\ position <= lengthBody

(***************************************************************************)
(* The state after construction.                                           *)
(***************************************************************************)
InitBuffer ==
    /\ body = <<>>
    /\ lengthBody = 0
    /\ part1Length = 0
    /\ gapLength = 0
    /\ growSize = 8
    /\ ref = <<>>
    /\ ub = FALSE

\* the buffer alone: no document is being lexed
Init ==
    /\ InitBuffer
    /\ doc = <<>>
    /\ pc = "buffer"
    /\ lx = <<>>
    /\ whole = <<>>
    /\ kLine = 0

(***************************************************************************)
(* One action per public operation.  The guards on MaxLen bound the model, *)
(* they are not conditions of the code.  Nothing is modelled after a call  *)
(* with undefined behaviour.                                               *)
(***************************************************************************)
CallSetGrowSize ==
    \E g \in GrowSizes :
        /\ ~ub
        /\ growSize' = g
        /\ UNCHANGED <<body, lengthBody, part1Length, gapLength, ref, ub>>
        /\ UNCHANGED lexVars

CallReAllocate ==
    \E newSize \in (0 - 1)..MaxAlloc :
        /\ ~ub
        /\ Becomes(ReAllocate(SV, newSize))
        /\ UNCHANGED <<ref, ub>>
        /\ UNCHANGED lexVars

CallSetValueAt ==
    \E position \in Positions, v \in Elems :
        /\ ~ub
        /\ Becomes(SetValueAt(SV, position, v))
        /\ ref' = IF position >= 0 /\ position < Len(ref)
                  THEN RefSet(ref, position, v) ELSE ref
        /\ UNCHANGED ub
        /\ UNCHANGED lexVars

CallInsert ==
    \E position \in Positions, v \in Elems :
        /\ ~ub
        /\ InRange(position) => lengthBody + 1 <= MaxLen
        /\ Becomes(Insert(SV, position, v))
        /\ ref' = IF position >= 0 /\ position <= Len(ref)
                  THEN RefInsert(ref, position, <<v>>) ELSE ref
        /\ UNCHANGED ub
        /\ UNCHANGED lexVars

CallInsertValue ==
    \E position \in Positions, insertLength \in Lengths, v \in Elems :
        /\ ~ub
        /\ InRange(position) /\ insertLength > 0 => lengthBody + insertLength <= MaxLen
        /\ Becomes(InsertValue(SV, position, insertLength, v))
        /\ ref' = IF position >= 0 /\ position <= Len(ref) /\ insertLength > 0
                  THEN RefInsert(ref, position, [i \in 1..insertLength |-> v])
                  ELSE ref
        /\ UNCHANGED ub
        /\ UNCHANGED lexVars

CallInsertEmpty ==
    \E position \in Positions, insertLength \in Lengths :
        /\ ~ub
        /\ InRange(position) /\ insertLength > 0 => lengthBody + insertLength <= MaxLen
        /\ Becomes(InsertEmpty(SV, position, insertLength))
        /\ ref' = IF position >= 0 /\ position <= Len(ref) /\ insertLength > 0
                  THEN RefInsert(ref, position, Zeros(insertLength))
                  ELSE ref
        /\ UNCHANGED ub
        /\ UNCHANGED lexVars

\* the caller hands an array s, an offset into it and a length within it
CallInsertFromArray ==
    \E positionToInsert \in Positions, s \in Arrays :
      \E positionFrom \in 0..Len(s) :
        \E insertLength \in 0..(Len(s) - positionFrom) :
          /\ ~ub
          /\ InRange(positionToInsert) => lengthBody + insertLength <= MaxLen
          /\ Becomes(InsertFromArray(SV, positionToInsert, s, positionFrom, insertLength))
          /\ ref' = IF positionToInsert >= 0 /\ positionToInsert <= Len(ref)
                    THEN RefInsert(ref, positionToInsert,
                                   SubSeq(s, positionFrom + 1, positionFrom + insertLength))
                    ELSE ref
          /\ UNCHANGED ub
          /\ UNCHANGED lexVars

CallDeleteRange ==
    \E position \in Positions, deleteLength \in Lengths :
        /\ ~ub
        /\ Becomes(DeleteRange(SV, position, deleteLength))
        /\ ref' = IF position >= 0 /\ deleteLength > 0
                     /\ position + deleteLength <= Len(ref)
                  THEN RefDelete(ref, position, deleteLength) ELSE ref
        /\ UNCHANGED ub
        /\ UNCHANGED lexVars

CallDelete ==
    \E position \in Positions :
        /\ ~ub
        /\ Becomes(Delete(SV, position))
        /\ ref' = IF position >= 0 /\ position + 1 <= Len(ref)
                  THEN RefDelete(ref, position, 1) ELSE ref
        /\ UNCHANGED ub
        /\ UNCHANGED lexVars

CallDeleteAll ==
    /\ ~ub
    /\ Becomes(DeleteAll(SV))
    /\ ref' = <<>>
    /\ UNCHANGED ub
    /\ UNCHANGED lexVars

CallBufferPointer ==
    /\ ~ub
    /\ Becomes(BufferPointer(SV))
    /\ UNCHANGED <<ref, ub>>
    /\ UNCHANGED lexVars

\* RangePointer checks nothing: a position below 0 whose range reaches past
\* the gap start makes GapTo read before the buffer, which is undefined; the
\* call then either ends the program or goes on with what GapTo wrote
CallRangePointer ==
    \E position \in Positions, rangeLength \in Lengths :
        /\ ~ub
        /\ UNCHANGED ref
        /\ UNCHANGED lexVars
        /\ IF position < 0 /\ RangePointerMoves(SV, position, rangeLength)
           THEN /\ ub' = TRUE
                /\ \/ UNCHANGED svVars
                   \/ \E junk \in Elems : Becomes(GapToBelowStart(SV, position, junk))
           ELSE /\ ub' = ub
                /\ Becomes(RangePointer(SV, position, rangeLength))

Next ==
    \/ CallSetGrowSize
    \/ CallReAllocate
    \/ CallSetValueAt
    \/ CallInsert
    \/ CallInsertValue
    \/ CallInsertEmpty
    \/ CallInsertFromArray
    \/ CallDeleteRange
    \/ CallDelete
    \/ CallDeleteAll
    \/ CallBufferPointer
    \/ CallRangePointer

Spec == Init /\ [][Next]_vars

(***************************************************************************)
(* Type correctness of the model itself.                                   *)
(***************************************************************************)
TypeOK ==
    /\ body \in Seq(Elems)
    /\ ref \in Seq(Elems)
    /\ lengthBody \in Int /\ part1Length \in Int /\ gapLength \in Int
    /\ growSize \in Nat
    /\ ub \in BOOLEAN

(***************************************************************************)
(* Claims about the gap buffer.                                            *)
(***************************************************************************)
\* the non-empty sequences the claims insert
Inserts == UNION {[1..n -> Elems] : n \in 1..2}

GapInvariant ==
    /\ gapLength = Len(body) - lengthBody
    /\ gapLength >= 0
    /\ 0 <= part1Length
    /\ part1Length <= lengthBody

C2_ObservationallyASequence ==
    ~ub =>
        /\ Length(SV) = Len(ref)
        /\ \A p \in Positions : ValueAt(SV, p) = RefAt(ref, p)

C2_Witness ==
    /\ ~ub
    /\ Len(ref) = MaxLen
    /\ ref[1] # ref[2]
    /\ 0 < part1Length /\ part1Length < lengthBody
    /\ gapLength > 0
    /\ Len(body) > MaxLen + 1

\* C3: in every reachable state, inserting a non-empty s at a p in
\* [0, length] (InsertFromArray, or Insert for one element) and then calling
\* DeleteRange(p, len(s)) leaves Length() and every ValueAt(q) as they were.
C3_InsertDeleteInverse ==
    ~ub =>
        \A p \in 0..lengthBody, s \in Inserts :
            LET back == DeleteRange(InsertFromArray(SV, p, s, 0, Len(s)), p, Len(s))
                one == DeleteRange(Insert(SV, p, s[1]), p, 1)
            IN  /\ Length(back) = Length(SV)
                /\ \A q \in Positions : ValueAt(back, q) = ValueAt(SV, q)
                /\ Length(one) = Length(SV)
                /\ \A q \in Positions : ValueAt(one, q) = ValueAt(SV, q)

\* a state from which the round trip has to reallocate and to move the gap
C3_Witness ==
    /\ ~ub
    /\ lengthBody >= 2
    /\ gapLength <= 1
    /\ 0 < part1Length /\ part1Length < lengthBody
    /\ ValueAt(SV, 0) # ValueAt(SV, 1)
    /\ \E p \in 0..lengthBody :
          /\ p # part1Length
          /\ Len(InsertFromArray(SV, p, <<1, empty>>, 0, 2).body) > Len(body)
          /\ DeleteRange(InsertFromArray(SV, p, <<1, empty>>, 0, 2), p, 2) # SV

\* C4: a mutator called with an out-of-range argument changes no data member
\* and no stored element.
C4_OutOfRangeNoOp ==
    ~ub =>
        /\ \A position \in Positions, n \in Lengths, v \in Elems, s \in Arrays :
              (position < 0 \/ position > lengthBody) =>
                  /\ Insert(SV, position, v) = SV
                  /\ InsertValue(SV, position, n, v) = SV
                  /\ InsertEmpty(SV, position, n) = SV
                  /\ \A from \in 0..Len(s) : \A k \in 0..(Len(s) - from) :
                        InsertFromArray(SV, position, s, from, k) = SV
        /\ \A position \in Positions, n \in Lengths :
              (position < 0 \/ position + n > lengthBody) =>
                  DeleteRange(SV, position, n) = SV
        /\ \A position \in Positions, v \in Elems :
              (position < 0 \/ position >= lengthBody) =>
                  SetValueAt(SV, position, v) = SV

\* a state in which an insertion that went ahead would have to reallocate
C4_Witness ==
    /\ ~ub
    /\ lengthBody >= 1 /\ lengthBody < MaxLen
    /\ gapLength <= 1
    /\ 0 < part1Length
    /\ Len(RoomFor(SV, 1).body) > Len(body)

FreshBuffer(sv) ==
    /\ sv.lengthBody = 0
    /\ Len(sv.body) = 0
    /\ sv.part1Length = 0
    /\ sv.gapLength = 0
    /\ sv.growSize = 8
    /\ ~sv.thrown

\* C5: DeleteRange(0, Length()) leaves the buffer a constructor leaves:
\* length 0, capacity 0, part1Length 0, gapLength 0, growSize 8.
C5_DeleteAllIsFresh ==
    ~ub =>
        /\ FreshBuffer(DeleteRange(SV, 0, Length(SV)))
        /\ FreshBuffer(DeleteAll(SV))

C5_Witness ==
    /\ ~ub
    /\ lengthBody = MaxLen
    /\ growSize # 8
    /\ Len(body) > lengthBody
    /\ 0 < part1Length /\ part1Length < lengthBody

\* C6: ReAllocate(newSize) changes nothing for 0 <= newSize <= capacity; for
\* newSize > capacity it makes the capacity newSize, moves the gap to the end
\* and keeps the length and the logical content; for newSize < 0 it raises
\* an error and changes nothing.
C6_ReAllocate ==
    ~ub =>
        \A newSize \in (0 - 1)..(MaxAlloc + MaxLen + 1) :
            LET r == ReAllocate(SV, newSize)
            IN  /\ Len(r.body) >= Len(body)
                /\ newSize < 0 => r.thrown /\ [r EXCEPT !.thrown = FALSE] = SV
                /\ newSize >= 0 /\ newSize <= Len(body) => r = SV
                /\ newSize > Len(body) =>
                      /\ ~r.thrown
                      /\ Len(r.body) = newSize
                      /\ r.part1Length = r.lengthBody
                      /\ r.gapLength = newSize - r.lengthBody
                      /\ Length(r) = Length(SV)
                      /\ Logical(r) = Logical(SV)

\* a state with the gap before unequal elements, which a growth has to move
C6_Witness ==
    /\ ~ub
    /\ lengthBody >= 2
    /\ part1Length = 0
    /\ gapLength > 0
    /\ ValueAt(SV, 0) # ValueAt(SV, 1)
    /\ Len(body) < MaxAlloc + MaxLen

\* C7: for 0 <= pos and pos + len <= length, RangePointer(pos, len) returns
\* an index i with body[i + k] the logical element pos + k for every k in
\* [0, len) and [i, i + len) outside the gap; it moves the gap only when
\* pos < gapStart < pos + len, and keeps the length and the logical content.
C7_RangePointer ==
    ~ub =>
        \A pos \in Positions, len \in Lengths :
            (0 <= pos /\ pos + len <= lengthBody) =>
                LET r == RangePointer(SV, pos, len)
                    i == RangePointerData(SV, pos, len)
                IN  /\ \A k \in 0..(len - 1) :
                          /\ i + k >= 0 /\ i + k < Len(r.body)
                          /\ r.body[i + k + 1] = ValueAt(SV, pos + k)
                          /\ ~(i + k >= r.part1Length
                               /\ i + k < r.part1Length + r.gapLength)
                    /\ r.part1Length # part1Length =>
                          pos < part1Length /\ part1Length < pos + len
                    /\ r.body # body => r.part1Length # part1Length
                    /\ Length(r) = Length(SV)
                    /\ Logical(r) = Logical(SV)

\* a state with a range that straddles the gap
C7_Witness ==
    /\ ~ub
    /\ lengthBody = MaxLen
    /\ 0 < part1Length /\ part1Length < lengthBody
    /\ gapLength > 0
    /\ ValueAt(SV, 0) # ValueAt(SV, MaxLen - 1)
    /\ RangePointer(SV, 0, lengthBody).part1Length = 0

(***************************************************************************)
(* The R lexer.  A document is a sequence of character codes; position p   *)
(* of the document is doc[p + 1].  Lines end with a line feed.             *)
(***************************************************************************)
\* the style identifiers, in the order IsRawString relies on
SCE_R_DEFAULT == 0
SCE_R_COMMENT == 1
SCE_R_KEYWORD == 2
SCE_R_NUMBER == 3
SCE_R_OPERATOR == 4
SCE_R_IDENTIFIER == 5
SCE_R_FUNCTION == 6
SCE_R_INFIX == 7
SCE_R_ESCAPECHAR == 8
SCE_R_FORMAT_SPECIFIER == 9
SCE_R_DIRECTIVE == 10
SCE_R_BACKTICKS == 11
SCE_R_STRING_SQ == 12
SCE_R_STRING_DQ == 13
SCE_R_RAWSTRING_SQ == 14
SCE_R_RAWSTRING_DQ == 15
Styles == SCE_R_DEFAULT..SCE_R_RAWSTRING_DQ
\* the style of a position no run has coloured
NoStyle == 0 - 1

SimpleLineStateMaskLineComment == 1

\* character codes
chLF == 10
chSpace == 32
chDQ == 34
chHash == 35
chDollar == 36
chPercent == 37
chSQ == 39
chLParen == 40
chRParen == 41
chStar == 42
chPlus == 43
chMinus == 45
chDot == 46
chSlash == 47
chZero == 48
chColon == 58
chUpperE == 69
chUpperU == 85
chLBracket == 91
chBackslash == 92
chRBracket == 93
chBacktick == 96
chA == 97
chE == 101
chI == 105
chL == 108
chN == 110
chR == 114
chU == 117
chX == 120
chLBrace == 123
chRBrace == 125

\* CharacterSet.h
IsADigit(ch) == ch >= 48 /\ ch <= 57
IsOctalDigit(ch) == ch >= 48 /\ ch <= 55
IsHexDigit(ch) == IsADigit(ch) \/ (ch >= 65 /\ ch <= 70) \/ (ch >= 97 /\ ch <= 102)
IsOctalOrHex(ch, hex) == IsOctalDigit(ch) \/ (hex /\ IsHexDigit(ch))
IsLowerCase(ch) == ch >= 97 /\ ch <= 122
IsUpperCase(ch) == ch >= 65 /\ ch <= 90
IsAlphaNumeric(ch) == IsADigit(ch) \/ IsLowerCase(ch) \/ IsUpperCase(ch)
IsASpaceOrTab(ch) == ch = 32 \/ ch = 9
isspacechar(ch) == ch = 32 \/ (ch >= 9 /\ ch <= 13)
IsAGraphic(ch) == ch > 32 /\ ch < 127
IsIdentifierCharEx(ch) == IsAlphaNumeric(ch) \/ ch = 95 \/ ch >= 128
IsIdentifierStartEx(ch) == IsLowerCase(ch) \/ IsUpperCase(ch) \/ ch = 95 \/ ch >= 128
IsDecimalNumberEx(chPrev, ch, chNext) ==
    \/ IsIdentifierCharEx(ch)
    \/ (ch = chDot /\ chNext # chDot)
    \/ ((ch = chPlus \/ ch = chMinus) /\ (chPrev = chE \/ chPrev = chUpperE))
IsNumberStartEx(chPrev, ch, chNext) ==
    IsADigit(ch) \/ (chPrev # chDot /\ ch = chDot /\ IsADigit(chNext))
\* the characters that cannot be part of a URL
IsInvalidUrlChar(ch) ==
    ch <= 32 \/ ch >= 127
    \/ ch \in {chDQ, 60, 62, chBackslash, 94, chBacktick, chLBrace, 124, chRBrace}

\* shifts and masks of the non-negative int values of the line state
RECURSIVE Pow2(_)
Pow2(n) == IF n = 0 THEN 1 ELSE 2 * Pow2(n - 1)
ShiftLeft(v, n) == v * Pow2(n)
ShiftRight(v, n) == v \div Pow2(n)
RECURSIVE BitAnd(_, _)
BitAnd(a, b) ==
    IF a = 0 \/ b = 0 THEN 0
    ELSE (IF a % 2 = 1 /\ b % 2 = 1 THEN 1 ELSE 0) + 2 * BitAnd(a \div 2, b \div 2)
RECURSIVE BitOr(_, _)
BitOr(a, b) ==
    IF a = 0 THEN b
    ELSE IF b = 0 THEN a
    ELSE (IF a % 2 = 1 \/ b % 2 = 1 THEN 1 ELSE 0) + 2 * BitOr(a \div 2, b \div 2)

\* ch | 0x20
UnsafeLower(ch) == BitOr(ch, 32)

\* LexAccessor: the character at a position, NUL outside the document
CharAt(pos) == IF pos >= 0 /\ pos < Len(doc) THEN doc[pos + 1] ELSE 0
\* the line a position is on
GetLine(pos) ==
    Cardinality({i \in 1..Len(doc) : i <= pos /\ doc[i] = chLF})
\* the position a line starts at, the document length for a line past the last
LineStart(line) ==
    IF line <= 0 THEN 0
    ELSE LET starts == {p \in 1..Len(doc) : doc[p] = chLF /\ GetLine(p) = line}
         IN  IF starts = {} THEN Len(doc) ELSE CHOOSE p \in starts : TRUE
\* the position of a line's terminator, the document length for the last line
LineEnd(line) ==
    IF line >= GetLine(Len(doc)) THEN Len(doc) ELSE LineStart(line + 1) - 1
\* the text of the positions [from, to)
TextRange(from, to) == [i \in 1..(to - from) |-> CharAt(from + i - 1)]

\* the keyword list handed to the lexer: the word aa
Keywords == {<<chA, chA>>}

(***************************************************************************)
(* StyleContext and the styler behind it, as a record.  A range that       *)
(* reaches the end of the document is scanned to one position past it, so  *)
(* that the last line has an iteration at its end as every other line.     *)
(***************************************************************************)
GetNextChar(x) ==
    [x EXCEPT !.chNext = CharAt(x.currentPos + 1),
              !.atLineEnd = IF x.currentLine < x.lineDocEnd
                            THEN x.currentPos >= x.lineStartNext - 1
                            ELSE x.currentPos >= x.lineStartNext]

More(x) == x.currentPos < x.endPos

Forward(x) ==
    IF x.currentPos < x.endPos
    THEN LET line == IF x.atLineEnd THEN x.currentLine + 1 ELSE x.currentLine
         IN  GetNextChar([x EXCEPT !.atLineStart = x.atLineEnd,
                                   !.currentLine = line,
                                   !.lineStartNext = IF x.atLineEnd THEN LineStart(line + 1)
                                                     ELSE x.lineStartNext,
                                   !.chPrev = x.ch,
                                   !.currentPos = x.currentPos + 1,
                                   !.ch = x.chNext])
    ELSE [x EXCEPT !.atLineStart = FALSE, !.chPrev = chSpace, !.ch = chSpace,
                   !.chNext = chSpace, !.atLineEnd = TRUE]

RECURSIVE Advance(_, _)
Advance(x, n) == IF n <= 0 THEN x ELSE Advance(Forward(x), n - 1)

\* LexAccessor::ColourTo: the positions [startSeg, pos] take the style attr
ColourTo(x, pos, attr) ==
    IF pos = x.startSeg - 1 THEN x
    ELSE IF pos < x.startSeg THEN x
    ELSE [x EXCEPT !.styles = [p \in DOMAIN x.styles |->
                                 IF p >= x.startSeg /\ p <= pos THEN attr ELSE x.styles[p]],
                   !.hits = [p \in DOMAIN x.hits |->
                                 IF p >= x.startSeg /\ p <= pos THEN x.hits[p] + 1
                                 ELSE x.hits[p]],
                   !.startSeg = pos + 1]

SetState(x, state) ==
    [ColourTo(x, x.currentPos - (IF x.currentPos > x.lengthDocument THEN 2 ELSE 1), x.state)
        EXCEPT !.state = state]

ChangeState(x, state) == [x EXCEPT !.state = state]

ForwardSetState(x, state) == SetState(Forward(x), state)

Complete(x) ==
    ColourTo(x, x.currentPos - (IF x.currentPos > x.lengthDocument THEN 2 ELSE 1), x.state)

MatchLineEnd(x) == x.currentPos = LineEnd(x.currentLine)

Match2(x, ch0, ch1) == x.ch = ch0 /\ x.chNext = ch1
Match3(x, ch0, ch1, ch2) == Match2(x, ch0, ch1) /\ CharAt(x.currentPos + 2) = ch2
MatchStr(x, s) == \A i \in 1..Len(s) : CharAt(x.currentPos + i - 1) = s[i]

\* the text of the current segment
GetCurrent(x) == TextRange(x.startSeg, x.currentPos)

\* the character after the current token, no white space skipped
GetLineNextChar(x) == x.ch

SetLineState(x, line, lineState) ==
    [x EXCEPT !.lineStates = [l \in DOMAIN x.lineStates |->
                                 IF l = line THEN lineState ELSE x.lineStates[l]]]

\* the styles and line states of a document no run has touched
NoStyles == [p \in 0..(Len(doc) - 1) |-> NoStyle]
NoLineStates == [l \in 0..(GetLine(Len(doc)) + 1) |-> 0]

StyleContext(startPos, lengthDoc, initStyle, styles, lineStates) ==
    LET line == GetLine(startPos)
    IN  GetNextChar(
          [endPos |-> IF startPos + lengthDoc < Len(doc) THEN startPos + lengthDoc
                      ELSE Len(doc) + 1,
           lengthDocument |-> Len(doc),
           lineDocEnd |-> GetLine(Len(doc)),
           currentPos |-> startPos,
           currentLine |-> line,
           lineStartNext |-> LineStart(line + 1),
           atLineStart |-> LineStart(line) = startPos,
           atLineEnd |-> FALSE,
           state |-> initStyle,
           chPrev |-> CharAt(startPos - 1),
           ch |-> CharAt(startPos),
           chNext |-> 0,
           startSeg |-> startPos,
           styles |-> styles,
           hits |-> [p \in 0..(Len(doc) - 1) |-> 0],
           lineStates |-> lineStates])

(***************************************************************************)
(* LexR.cxx.  The locals of ColouriseRDoc and the members of its           *)
(* EscapeSequence are fields of the same record as the StyleContext.       *)
(***************************************************************************)
Locals ==
    [lineStateLineComment |-> 0,
     chBeforeIdentifier |-> 0,
     visibleChars |-> 0,
     insideUrl |-> FALSE,
     matchingDelimiter |-> 0,
     dashCount |-> 0,
     outerState |-> SCE_R_DEFAULT,
     digitsLeft |-> 0,
     hex |-> FALSE,
     brace |-> FALSE,
     count |-> 0,
     continue |-> FALSE,
     iterations |-> 0,
     stalled |-> 0,
     stalls |-> 0]

resetEscapeState(x, state, chNext) ==
    [x EXCEPT !.outerState = state,
              !.digitsLeft = IF chNext = chX THEN 3
                             ELSE IF chNext = chU THEN 5
                             ELSE IF chNext = chUpperU THEN 9
                             ELSE IF IsOctalDigit(chNext) THEN 3
                             ELSE 1,
              !.hex = ~(chNext # chX /\ chNext # chU /\ chNext # chUpperU
                        /\ IsOctalDigit(chNext)),
              !.brace = FALSE]

\* atEscapeEnd decrements digitsLeft whatever it returns
atEscapeEndCount(x) == [x EXCEPT !.digitsLeft = x.digitsLeft - 1]
atEscapeEnd(x, ch) == x.digitsLeft - 1 <= 0 \/ ~IsOctalOrHex(ch, x.hex)

IsRawString(state) == state >= SCE_R_RAWSTRING_SQ

GetStringQuote(state) ==
    IF state = SCE_R_BACKTICKS THEN chBacktick
    ELSE IF state = SCE_R_STRING_SQ THEN chSQ ELSE chDQ

\* CheckRawString without dashCount = 0 when no bracket follows the dashes
RECURSIVE ScanRawString_KeepDashes(_, _, _)
ScanRawString_KeepDashes(x, pos, dashes) ==
    IF pos < x.lineStartNext
    THEN LET ch == CharAt(pos)
         IN  IF ch = chMinus THEN ScanRawString_KeepDashes(x, pos + 1, dashes + 1)
             ELSE IF ch = chLParen THEN [delimiter |-> chRParen, dashCount |-> dashes]
             ELSE IF ch = chLBracket THEN [delimiter |-> chRBracket, dashCount |-> dashes]
             ELSE IF ch = chLBrace THEN [delimiter |-> chRBrace, dashCount |-> dashes]
             ELSE [delimiter |-> 0, dashCount |-> dashes]
    ELSE [delimiter |-> 0, dashCount |-> dashes]
\* the scan of CheckRawString from pos on, dashes dashes seen so far
RECURSIVE ScanRawString(_, _, _)
ScanRawString(x, pos, dashes) ==
    IF pos < x.lineStartNext
    THEN LET ch == CharAt(pos)
         IN  IF ch = chMinus THEN ScanRawString(x, pos + 1, dashes + 1)
             ELSE IF ch = chLParen THEN [delimiter |-> chRParen, dashCount |-> dashes]
             ELSE IF ch = chLBracket THEN [delimiter |-> chRBracket, dashCount |-> dashes]
             ELSE IF ch = chLBrace THEN [delimiter |-> chRBrace, dashCount |-> dashes]
             ELSE [delimiter |-> 0, dashCount |-> 0]
    ELSE [delimiter |-> 0, dashCount |-> 0]

CheckRawString(x) == ScanRawString(x, x.currentPos + 2, 0)

IsFormatSpecifier(ch) ==
    ch \in {97, 65, 99, 100, 101, 69, 102, 70, 103, 71, 105, 111, 115, 117, 120, 88}

RECURSIVE SkipDigits(_)
SkipDigits(pos) == IF IsADigit(CharAt(pos)) THEN SkipDigits(pos + 1) ELSE pos
RECURSIVE SkipFlags(_)
SkipFlags(pos) ==
    IF CharAt(pos) \in {chMinus, chPlus, chSpace, chHash, chZero}
    THEN SkipFlags(pos + 1) ELSE pos
\* one round of the width and precision loop
SkipWidth(pos) ==
    LET argument == CharAt(pos) = chStar
        digits == SkipDigits(IF argument THEN pos + 1 ELSE pos)
    IN  IF argument /\ CharAt(digits) = chDollar THEN digits + 1 ELSE digits

CheckFormatSpecifier(x, insideUrl) ==
    IF x.chNext = chPercent THEN 2
    ELSE IF insideUrl /\ IsHexDigit(x.chNext) THEN 0
    ELSE IF IsASpaceOrTab(x.chNext) /\ IsADigit(x.chPrev) THEN 0
    ELSE LET argument == SkipDigits(x.currentPos + 1)
             flags == SkipFlags(IF CharAt(argument) = chDollar THEN argument + 1
                                ELSE argument)
             width == SkipWidth(flags)
             pos == IF CharAt(width) = chDot THEN SkipWidth(width + 1) ELSE width
         IN  IF IsFormatSpecifier(CharAt(pos)) THEN pos - x.currentPos + 1 ELSE 0

\* the line state ColouriseRDoc stores at the end of a line
PackLineState_Shift7(lineStateLineComment, matchingDelimiter, dashCount) ==
    BitOr(BitOr(lineStateLineComment, ShiftLeft(matchingDelimiter, 1)),
          ShiftLeft(dashCount, 7))
PackLineState(lineStateLineComment, matchingDelimiter, dashCount) ==
    BitOr(BitOr(lineStateLineComment, ShiftLeft(matchingDelimiter, 1)),
          ShiftLeft(dashCount, 8))
\* what ColouriseRDoc and the folder read back from a line state
UnpackDelimiter(lineState) == BitAnd(ShiftRight(lineState, 1), 127)
UnpackDashCount(lineState) == ShiftRight(lineState, 8)
GetLineCommentState(lineState) == BitAnd(lineState, SimpleLineStateMaskLineComment)

\* the seeding of the raw string state from the previous line
SeedFromLineState_NoDashCount(x) ==
    IF x.currentLine > 0
    THEN [x EXCEPT !.matchingDelimiter = UnpackDelimiter(x.lineStates[x.currentLine - 1])]
    ELSE x
SeedFromLineState(x) ==
    IF x.currentLine > 0
    THEN [x EXCEPT !.matchingDelimiter = UnpackDelimiter(x.lineStates[x.currentLine - 1]),
                   !.dashCount = UnpackDashCount(x.lineStates[x.currentLine - 1])]
    ELSE x

\* ColouriseRDoc up to its loop
ColouriseStart(startPos, lengthDoc, initStyle, styles, lineStates) ==
    SeedFromLineState(StyleContext(startPos, lengthDoc, initStyle, styles, lineStates)
                      @@ Locals)

CaseOperator(x) == SetState(x, SCE_R_DEFAULT)

CaseInfix(x) ==
    IF x.atLineStart THEN SetState(x, SCE_R_DEFAULT)
    ELSE IF x.ch = chPercent THEN ForwardSetState(x, SCE_R_DEFAULT)
    ELSE x

CaseNumber(x) ==
    IF ~IsDecimalNumberEx(x.chPrev, x.ch, x.chNext) THEN SetState(x, SCE_R_DEFAULT) ELSE x

\* case SCE_R_IDENTIFIER with the keyword looked up next to a dot as well
CaseIdentifier_NoDotGuard(x) ==
    IF ~IsIdentifierCharEx(x.ch)
    THEN LET k == IF GetCurrent(x) \in Keywords
                  THEN ChangeState(x, SCE_R_KEYWORD) ELSE x
             f == IF k.state = SCE_R_IDENTIFIER /\ GetLineNextChar(k) = chLParen
                  THEN ChangeState(k, SCE_R_FUNCTION) ELSE k
         IN  SetState(f, SCE_R_DEFAULT)
    ELSE x
CaseIdentifier(x) ==
    IF ~IsIdentifierCharEx(x.ch)
    THEN LET k == IF x.ch # chDot /\ x.chBeforeIdentifier # chDot
                     /\ GetCurrent(x) \in Keywords
                  THEN ChangeState(x, SCE_R_KEYWORD) ELSE x
             f == IF k.state = SCE_R_IDENTIFIER /\ GetLineNextChar(k) = chLParen
                  THEN ChangeState(k, SCE_R_FUNCTION) ELSE k
         IN  SetState(f, SCE_R_DEFAULT)
    ELSE x

CaseComment(x) == IF x.atLineStart THEN SetState(x, SCE_R_DEFAULT) ELSE x

\* StringEscape without the test for the line end
StringEscape_NoLineEnd(x) ==
    LET e == Forward(SetState(resetEscapeState(x, x.state, x.chNext), SCE_R_ESCAPECHAR))
    IN  IF e.chNext = chLBrace /\ e.digitsLeft > 4
        THEN Forward([e EXCEPT !.brace = TRUE])
        ELSE e
\* a backslash in a string that is not raw
StringEscape(x) ==
    LET e == Forward(SetState(resetEscapeState(x, x.state, x.chNext), SCE_R_ESCAPECHAR))
    IN  IF e.chNext = chLBrace /\ e.digitsLeft > 4
        THEN Forward([e EXCEPT !.brace = TRUE])
        ELSE IF MatchLineEnd(e) THEN SetState(e, e.outerState)
        ELSE e

\* while (count != 0 && sc.ch == '-')
RECURSIVE SkipDashes(_)
SkipDashes(x) ==
    IF x.count # 0 /\ x.ch = chMinus
    THEN SkipDashes([Forward(x) EXCEPT !.count = x.count - 1])
    ELSE x

\* mutant: StringRawDelimiter that leaves the recorded bracket and dash count
\* as they are when the raw string ends
StringRawDelimiter_KeepDelimiter(x) ==
    LET d == SkipDashes([Forward([x EXCEPT !.insideUrl = x.insideUrl /\ x.ch # chRBrace])
                            EXCEPT !.count = x.dashCount])
    IN  IF d.count = 0 /\ d.ch = (IF d.state = SCE_R_RAWSTRING_SQ THEN chSQ ELSE chDQ)
        THEN ForwardSetState(d, SCE_R_DEFAULT)
        ELSE [d EXCEPT !.continue = TRUE]

\* StringRawDelimiter with every dash skipped, none counted
StringRawDelimiter_AnyDashes(x) ==
    LET d == SkipDashes([Forward([x EXCEPT !.insideUrl = x.insideUrl /\ x.ch # chRBrace])
                            EXCEPT !.count = 0 - 1])
    IN  IF d.ch = (IF d.state = SCE_R_RAWSTRING_SQ THEN chSQ ELSE chDQ)
        THEN ForwardSetState([d EXCEPT !.matchingDelimiter = 0, !.dashCount = 0],
                             SCE_R_DEFAULT)
        ELSE [d EXCEPT !.continue = TRUE]
\* the closing bracket of a raw string
StringRawDelimiter(x) ==
    LET d == SkipDashes([Forward([x EXCEPT !.insideUrl = x.insideUrl /\ x.ch # chRBrace])
                            EXCEPT !.count = x.dashCount])
    IN  IF d.count = 0 /\ d.ch = (IF d.state = SCE_R_RAWSTRING_SQ THEN chSQ ELSE chDQ)
        THEN ForwardSetState([d EXCEPT !.matchingDelimiter = 0, !.dashCount = 0],
                             SCE_R_DEFAULT)
        ELSE [d EXCEPT !.continue = TRUE]

\* the rest of a string or raw string
StringContent(x) ==
    IF x.ch = chPercent
    THEN LET length == CheckFormatSpecifier(x, x.insideUrl)
         IN  IF length # 0
             THEN [SetState(Advance(SetState(x, SCE_R_FORMAT_SPECIFIER), length), x.state)
                      EXCEPT !.continue = TRUE]
             ELSE x
    ELSE IF Match3(x, chColon, chSlash, chSlash) /\ IsLowerCase(x.chPrev)
    THEN [x EXCEPT !.insideUrl = TRUE]
    ELSE IF x.insideUrl /\ IsInvalidUrlChar(x.ch)
    THEN [x EXCEPT !.insideUrl = FALSE]
    ELSE x

CaseString(x) ==
    IF x.ch = chBackslash /\ ~IsRawString(x.state) THEN StringEscape(x)
    ELSE IF ~IsRawString(x.state) /\ x.ch = GetStringQuote(x.state)
    THEN ForwardSetState(x, SCE_R_DEFAULT)
    ELSE IF IsRawString(x.state) /\ x.ch = x.matchingDelimiter THEN StringRawDelimiter(x)
    ELSE IF x.state # SCE_R_BACKTICKS THEN StringContent(x)
    ELSE x

CaseEscapeChar_KeepState(x) ==
    IF atEscapeEnd(x, x.ch)
    THEN [atEscapeEndCount(x) EXCEPT !.continue = TRUE]
    ELSE atEscapeEndCount(x)
CaseEscapeChar(x) ==
    IF atEscapeEnd(x, x.ch)
    THEN LET e == atEscapeEndCount(x)
         IN  [SetState(IF e.brace /\ e.ch = chRBrace THEN Forward(e) ELSE e, e.outerState)
                 EXCEPT !.continue = TRUE]
    ELSE atEscapeEndCount(x)

\* switch (sc.state)
SwitchState(x) ==
    CASE x.state = SCE_R_OPERATOR -> CaseOperator(x)
      [] x.state = SCE_R_INFIX -> CaseInfix(x)
      [] x.state = SCE_R_NUMBER -> CaseNumber(x)
      [] x.state = SCE_R_IDENTIFIER -> CaseIdentifier(x)
      [] x.state \in {SCE_R_COMMENT, SCE_R_DIRECTIVE} -> CaseComment(x)
      [] x.state \in {SCE_R_BACKTICKS, SCE_R_STRING_SQ, SCE_R_STRING_DQ,
                      SCE_R_RAWSTRING_SQ, SCE_R_RAWSTRING_DQ} -> CaseString(x)
      [] x.state = SCE_R_ESCAPECHAR -> CaseEscapeChar(x)
      [] OTHER -> x

\* r or R before a quote: a raw string, or an identifier and a string
StartRawString(x) ==
    LET raw == CheckRawString(x)
        r == [x EXCEPT !.insideUrl = FALSE,
                       !.matchingDelimiter = raw.delimiter,
                       !.dashCount = raw.dashCount]
    IN  IF raw.delimiter # 0
        THEN Advance(SetState(r, IF x.chNext = chSQ THEN SCE_R_RAWSTRING_SQ
                                 ELSE SCE_R_RAWSTRING_DQ),
                     raw.dashCount + 2)
        ELSE ForwardSetState(SetState(r, SCE_R_IDENTIFIER),
                             IF x.chNext = chSQ THEN SCE_R_STRING_SQ ELSE SCE_R_STRING_DQ)

\* if (sc.state == SCE_R_DEFAULT)
DefaultState(x) ==
    IF x.state # SCE_R_DEFAULT THEN x
    ELSE IF x.ch = chHash
    THEN IF x.visibleChars = 0 /\ MatchStr(x, <<chHash, chL, chI, chN, chE>>)
         THEN SetState(x, SCE_R_DIRECTIVE)
         ELSE [SetState(x, SCE_R_COMMENT)
                  EXCEPT !.lineStateLineComment =
                             IF x.visibleChars = 0 THEN SimpleLineStateMaskLineComment
                             ELSE x.lineStateLineComment]
    ELSE IF UnsafeLower(x.ch) = chR /\ (x.chNext = chSQ \/ x.chNext = chDQ)
    THEN StartRawString(x)
    ELSE IF x.ch = chDQ THEN SetState([x EXCEPT !.insideUrl = FALSE], SCE_R_STRING_DQ)
    ELSE IF x.ch = chSQ THEN SetState([x EXCEPT !.insideUrl = FALSE], SCE_R_STRING_SQ)
    ELSE IF x.ch = chBacktick THEN SetState(x, SCE_R_BACKTICKS)
    ELSE IF IsNumberStartEx(x.chPrev, x.ch, x.chNext) THEN SetState(x, SCE_R_NUMBER)
    ELSE IF IsIdentifierStartEx(x.ch)
    THEN SetState([x EXCEPT !.chBeforeIdentifier = x.chPrev], SCE_R_IDENTIFIER)
    ELSE IF x.ch = chPercent THEN SetState(x, SCE_R_INFIX)
    ELSE IF IsAGraphic(x.ch) /\ x.ch # chBackslash THEN SetState(x, SCE_R_OPERATOR)
    ELSE x

\* the end of an iteration that did not continue
EndOfIteration(x) ==
    LET v == IF x.visibleChars = 0 /\ ~isspacechar(x.ch)
             THEN [x EXCEPT !.visibleChars = 1] ELSE x
        e == IF v.atLineEnd
             THEN [SetLineState(v, v.currentLine,
                                PackLineState(v.lineStateLineComment, v.matchingDelimiter,
                                              v.dashCount))
                      EXCEPT !.lineStateLineComment = 0,
                             !.visibleChars = 0,
                             !.insideUrl = FALSE]
             ELSE v
    IN  Forward(e)

\* one iteration of while (sc.More())
Iterate(x) ==
    LET s == SwitchState([x EXCEPT !.continue = FALSE])
    IN  IF s.continue THEN s ELSE EndOfIteration(DefaultState(s))

\* the loop and sc.Complete()
RECURSIVE Loop(_)
Loop(x) == IF More(x) THEN Loop(Iterate(x)) ELSE Complete(x)

ColouriseRDoc(startPos, lengthDoc, initStyle, styles, lineStates) ==
    Loop(ColouriseStart(startPos, lengthDoc, initStyle, styles, lineStates))

(***************************************************************************)
(* The documents: concatenations of a few tokens.                          *)
(***************************************************************************)
\* the largest number of tokens of a document lexed whole and again in parts
MaxTokens == 3
\* the largest number of tokens of a document lexed from any line in any state
MaxTokensTotal == 2
\* the largest dash count packed into a line state on its own
MaxDashCount == 4

Tokens ==
    { <<chLF>>,
      <<chR, chDQ, chMinus, chLParen>>,
      <<chRParen, chMinus, chDQ>>,
      <<chRParen>>,
      <<chDQ>>,
      <<chBackslash>>,
      <<chBackslash, chU, chLBrace>>,
      <<chRBrace>>,
      <<chA>>,
      <<chZero>>,
      <<chPercent>>,
      <<chHash>>,
      <<chA, chColon, chSlash, chSlash>>,
      <<chLParen>>,
      <<chSpace>> }

RECURSIVE Flatten(_)
Flatten(ts) == IF ts = <<>> THEN <<>> ELSE Head(ts) \o Flatten(Tail(ts))

DocsOf(n) == {Flatten(ts) : ts \in UNION {[1..m -> Tokens] : m \in 0..n}}

\* r"(hello)"
RawHello == <<chR, chDQ, chLParen, 104, chE, chL, chL, 111, chRParen, chDQ>>
\* f <- function() {\n  1\n}\n
FunctionText ==
    <<102, chSpace, 60, chMinus, chSpace, 102, chU, chN, 99, 116, chI, 111, chN,
      chLParen, chRParen, chSpace, chLBrace, chLF,
      chSpace, chSpace, 49, chLF,
      chRBrace, chLF>>
\* a string that ends at the start of the second line, right before a #
MultiLineComment == <<chDQ, chLF, chDQ, chHash, chLF>>
\* #line
DirectiveText == <<chHash, chL, chI, chN, chE>>
Examples == {RawHello, FunctionText, MultiLineComment, DirectiveText}

\* the largest number of dashes after the quote of a raw string prefix
MaxPrefixDashes == 2
Dashes(n) == [i \in 1..n |-> chMinus]
\* r or R, a quote, dashes and what follows them on the line or ends the line
RawPrefixDocs ==
    {<<r, q>> \o Dashes(n) \o f :
        r \in {chR, chR - 32}, q \in {chSQ, chDQ}, n \in 0..MaxPrefixDashes,
        f \in {<<chLParen>>, <<chLBracket>>, <<chLBrace>>, <<chA>>, <<chLF>>,
                <<chLF, chLParen>>, <<>>}}

\* an identifier, in the keyword list or not, after nothing, a dot or a space
\* and before nothing, a parenthesis, a dot, a space or a line end
IdentifierDocs ==
    {pre \o id \o post :
        pre \in {<<>>, <<chDot>>, <<chSpace>>},
        id \in {<<chA>>, <<chA, chA>>, <<chA - 32, chA>>, <<chA, chA, chA>>},
        post \in {<<>>, <<chLParen>>, <<chDot>>, <<chSpace, chLParen>>, <<chLF>>}}

Docs == DocsOf(MaxTokens) \cup Examples
\* the tokens of the documents lexed from any line in any state
TokensTotal == Tokens \ {<<chA, chColon, chSlash, chSlash>>, <<chZero>>}
DocsTotal ==
    {Flatten(ts) : ts \in UNION {[1..m -> TokensTotal] : m \in 0..MaxTokensTotal}}
        \cup {RawHello} \cup RawPrefixDocs \cup IdentifierDocs

\* the line states a run may find stored for the line before its first
Seeds ==
    {PackLineState(0, 0, 0)} \cup {PackLineState(0, chRParen, dashes) : dashes \in 0..1}

lineDocEnd == GetLine(Len(doc))

(***************************************************************************)
(* SpecLex: a document is lexed whole from position 0, then again in two   *)
(* calls, lines [0, k) and the rest from the start of line k.              *)
(***************************************************************************)
InitLex ==
    /\ InitBuffer
    /\ doc \in Docs
    /\ pc = "start"
    /\ lx = <<>>
    /\ whole = <<>>
    /\ kLine = 0

LexWhole ==
    /\ pc = "start"
    /\ lx' = ColouriseRDoc(0, Len(doc), SCE_R_DEFAULT, NoStyles, NoLineStates)
    /\ whole' = lx'
    /\ pc' = "whole"
    /\ UNCHANGED <<doc, kLine>>
    /\ UNCHANGED <<svVars, ref, ub>>

LexPrefix ==
    \E k \in 1..lineDocEnd :
        /\ pc = "whole"
        /\ lx' = ColouriseRDoc(0, LineStart(k), SCE_R_DEFAULT, NoStyles, NoLineStates)
        /\ kLine' = k
        /\ pc' = "prefix"
        /\ UNCHANGED <<doc, whole>>
        /\ UNCHANGED <<svVars, ref, ub>>

\* the style the editor hands a run that starts at startPos
StyleBefore(styles, startPos) == IF startPos > 0 THEN styles[startPos - 1] ELSE SCE_R_DEFAULT

LexResume ==
    /\ pc = "prefix"
    /\ lx' = ColouriseRDoc(LineStart(kLine), Len(doc) - LineStart(kLine),
                           StyleBefore(lx.styles, LineStart(kLine)),
                           lx.styles, lx.lineStates)
    /\ pc' = "resumed"
    /\ UNCHANGED <<doc, whole, kLine>>
    /\ UNCHANGED <<svVars, ref, ub>>

NextLex ==
    \/ LexWhole
    \/ LexPrefix
    \/ LexResume

SpecLex == InitLex /\ [][NextLex]_vars

(***************************************************************************)
(* SpecTotal: one call of ColouriseRDoc, an iteration of its loop at a     *)
(* time, on any range that starts at a line start, in any initial style    *)
(* and with any line state stored for the line before.                     *)
(***************************************************************************)
InitTotal ==
    /\ InitBuffer
    /\ doc \in DocsTotal
    /\ whole = <<>>
    /\ pc = "call"
    /\ kLine \in 0..lineDocEnd
    /\ lx \in [lengthDoc : 0..(Len(doc) - LineStart(kLine)),
               initStyle : Styles,
               seed : IF kLine > 0 THEN Seeds ELSE {0}]

\* the call, up to the loop; its arguments are kept in whole
LexEnter ==
    /\ pc = "call"
    /\ lx' = ColouriseStart(LineStart(kLine), lx.lengthDoc, lx.initStyle, NoStyles,
                            [l \in DOMAIN NoLineStates |->
                                IF l = kLine - 1 THEN lx.seed ELSE 0])
    /\ whole' = lx
    /\ pc' = "loop"
    /\ UNCHANGED <<doc, kLine>>
    /\ UNCHANGED <<svVars, ref, ub>>

LexIterate ==
    /\ pc = "loop"
    /\ More(lx)
    /\ lx' = LET i == Iterate(lx)
             IN  [i EXCEPT !.iterations = lx.iterations + 1,
                           !.stalled = IF i.currentPos = lx.currentPos
                                       THEN lx.stalled + 1 ELSE 0,
                           !.stalls = IF i.currentPos = lx.currentPos
                                      THEN lx.stalls + 1 ELSE lx.stalls]
    /\ UNCHANGED <<doc, pc, whole, kLine>>
    /\ UNCHANGED <<svVars, ref, ub>>

LexComplete ==
    /\ pc = "loop"
    /\ ~More(lx)
    /\ lx' = Complete(lx)
    /\ pc' = "done"
    /\ UNCHANGED <<doc, whole, kLine>>
    /\ UNCHANGED <<svVars, ref, ub>>

NextTotal ==
    \/ LexEnter
    \/ LexIterate
    \/ LexComplete

SpecTotal == InitTotal /\ [][NextTotal]_vars

(***************************************************************************)
(* SpecPack: a line state is packed as at a line end and read back as the  *)
(* seeding code and the folder read it.                                    *)
(***************************************************************************)
InitPack ==
    /\ InitBuffer
    /\ doc = <<>>
    /\ whole = <<>>
    /\ kLine = 0
    /\ pc = "fields"
    /\ lx \in [lineStateLineComment : {0, SimpleLineStateMaskLineComment},
               matchingDelimiter : {0, chRParen, chRBracket, chRBrace},
               dashCount : 0..MaxDashCount,
               lineState : {0}]

PackStore ==
    /\ pc = "fields"
    /\ lx' = [lx EXCEPT !.lineState = PackLineState(lx.lineStateLineComment,
                                                    lx.matchingDelimiter, lx.dashCount)]
    /\ pc' = "stored"
    /\ UNCHANGED <<doc, whole, kLine>>
    /\ UNCHANGED <<svVars, ref, ub>>

PackRead ==
    /\ pc = "stored"
    /\ whole' = [lineStateLineComment |-> GetLineCommentState(lx.lineState),
                 matchingDelimiter |-> UnpackDelimiter(lx.lineState),
                 dashCount |-> UnpackDashCount(lx.lineState)]
    /\ pc' = "read"
    /\ UNCHANGED <<doc, lx, kLine>>
    /\ UNCHANGED <<svVars, ref, ub>>

NextPack ==
    \/ PackStore
    \/ PackRead

SpecPack == InitPack /\ [][NextPack]_vars

(***************************************************************************)
(* Claims about the lexer.                                                 *)
(***************************************************************************)
\* C8: when the document has been lexed whole from position 0, and again as
\* lines [0, k) followed by a call at the start of line k with the style of the
\* last character of line k - 1 and the line state stored for line k - 1, every
\* position from the start of line k on has the same style and every line from
\* k on the same stored line state in both.
C8_RelexEquivalence ==
    pc = "resumed" =>
        /\ \A p \in LineStart(kLine)..(Len(doc) - 1) : lx.styles[p] = whole.styles[p]
        /\ \A l \in kLine..lineDocEnd : lx.lineStates[l] = whole.lineStates[l]

\* a resumed run that starts inside a raw string with a dash, closes it and
\* goes on to style something else
C8_Witness ==
    /\ pc = "resumed"
    /\ UnpackDashCount(whole.lineStates[kLine - 1]) > 0
    /\ UnpackDelimiter(whole.lineStates[kLine - 1]) = chRParen
    /\ lx.matchingDelimiter = 0
    /\ lx.styles[LineStart(kLine)] = SCE_R_RAWSTRING_DQ
    /\ lx.styles[Len(doc) - 1] = SCE_R_RAWSTRING_DQ

\* the positions a run was asked to style
Scanned(x) == {p \in 0..(Len(doc) - 1) : p >= LineStart(kLine) /\ p < x.endPos}

\* C9: the loop of ColouriseRDoc terminates on every document, initial style
\* and seed line state: an iteration that leaves the cursor where it was is one
\* that took a continue and the next iteration moves the cursor, so the number
\* of iterations is at most twice the distance covered plus one; and when the
\* call returns every position of the scanned range has been given a style
\* exactly once, and no other position has.
C9_Total ==
    pc \in {"loop", "done"} =>
        /\ lx.stalled <= 1
        /\ lx.stalled = 1 => lx.continue
        /\ lx.currentPos <= lx.endPos
        /\ lx.iterations <= 2 * (lx.currentPos - LineStart(kLine)) + lx.stalled
        /\ lx.stalls <= lx.currentPos - LineStart(kLine) + lx.stalled
        /\ pc = "done" =>
              \A p \in 0..(Len(doc) - 1) :
                  IF p \in Scanned(lx)
                  THEN lx.hits[p] = 1 /\ lx.styles[p] \in Styles
                  ELSE lx.hits[p] = 0 /\ lx.styles[p] = NoStyle

\* a call that has returned after an escape sequence made an iteration leave
\* the cursor in place
C9_Witness ==
    /\ pc = "done"
    /\ lx.stalls >= 1
    /\ \E p \in Scanned(lx) : lx.styles[p] = SCE_R_ESCAPECHAR
    /\ Scanned(lx) = 0..(Len(doc) - 1)
    /\ Len(doc) >= 3

\* C10: the stored line state has the line comment flag in bit 0, the
\* matching delimiter in bits 1 to 7 and the dash count from bit 8 up, and the
\* seeding code and GetLineCommentState read back exactly what was packed.
C10_LineStateRoundTrip ==
    /\ pc \in {"stored", "read"} =>
          /\ lx.lineState % 2 = lx.lineStateLineComment
          /\ (lx.lineState \div 2) % 128 = lx.matchingDelimiter
          /\ lx.lineState \div 256 = lx.dashCount
    /\ pc = "read" =>
          /\ whole.lineStateLineComment = lx.lineStateLineComment
          /\ whole.matchingDelimiter = lx.matchingDelimiter
          /\ whole.dashCount = lx.dashCount

\* a line state with every field set has been packed and read back
C10_Witness ==
    /\ pc = "read"
    /\ lx.lineStateLineComment = 1
    /\ lx.matchingDelimiter = chRBrace
    /\ lx.dashCount = MaxDashCount

\* the states a backslash starts an escape sequence in
EscapingStates == {SCE_R_BACKTICKS, SCE_R_STRING_SQ, SCE_R_STRING_DQ}

\* C11: an escape sequence never crosses a line boundary.  An iteration never
\* brings the lexer to the start of a line in the state SCE_R_ESCAPECHAR; an
\* escape the lexer is in after its first iteration was started by a backslash
\* in a string or backtick state, which outerState holds; an iteration that
\* finds the end of a line in the escape state goes back to that state and
\* leaves the line terminator where it is; a backslash right before the end of
\* a line is styled as an escape and the iteration ends in the string state it
\* started in; and when the call returns no line feed has the escape style.
C11_EscapeStaysOnLine ==
    [][(pc = "loop" /\ pc' = "loop" =>
            /\ lx'.atLineStart => lx'.state # SCE_R_ESCAPECHAR
            /\ lx'.state = SCE_R_ESCAPECHAR => lx'.outerState \in EscapingStates
            /\ (lx.state = SCE_R_ESCAPECHAR /\ MatchLineEnd(lx)) =>
                  /\ lx'.state = lx.outerState
                  /\ lx'.currentPos = lx.currentPos
            /\ (lx.state \in EscapingStates /\ lx.ch = chBackslash
                /\ lx.currentPos + 1 = LineEnd(lx.currentLine)
                /\ lx.currentPos + 1 < lx.endPos) =>
                  /\ lx'.state = lx.state
                  /\ lx'.styles[lx.currentPos] = SCE_R_ESCAPECHAR)
       /\ (pc' = "done" =>
            \A p \in Scanned(lx') : CharAt(p) = chLF => lx'.styles[p] # SCE_R_ESCAPECHAR)]_vars

\* a call has returned with a backslash styled as an escape right before a
\* line feed that has the style of the string around it
C11_Witness ==
    /\ pc = "done"
    /\ \E p \in Scanned(lx) :
          /\ p > LineStart(kLine)
          /\ CharAt(p) = chLF
          /\ CharAt(p - 1) = chBackslash
          /\ lx.styles[p - 1] = SCE_R_ESCAPECHAR
          /\ lx.styles[p] \in EscapingStates

\* the closing brackets CheckRawString records
ClosingBrackets == {chRParen, chRBracket, chRBrace}
\* the quote that closes a raw string of the given state
RawQuote(state) == IF state = SCE_R_RAWSTRING_SQ THEN chSQ ELSE chDQ
\* the text at the cursor is the recorded delimiter, exactly the recorded
\* number of dashes and the quote
AtClosingSequence(x) ==
    /\ CharAt(x.currentPos) = x.matchingDelimiter
    /\ \A i \in 1..x.dashCount : CharAt(x.currentPos + i) = chMinus
    /\ CharAt(x.currentPos + x.dashCount + 1) = RawQuote(x.state)

\* C12: an iteration that starts in a raw string state with a recorded closing
\* bracket and dash count leaves the raw string exactly when the text at the
\* cursor is the bracket, that number of dashes and the quote of the string:
\* then the string is styled through the quote and the two values are cleared
\* (or recorded anew by a raw string that opens right after it); in any other
\* case, a partial match included, the state and the two values stay as they
\* were, on whatever line the iteration is and however the values came there.
C12_RawStringEnd ==
    [][(pc = "loop" /\ pc' = "loop" /\ IsRawString(lx.state)
        /\ lx.matchingDelimiter \in ClosingBrackets) =>
            IF AtClosingSequence(lx)
            THEN lx.currentPos + lx.dashCount + 2 <= lx.endPos =>
                    /\ \A p \in lx.currentPos..(lx.currentPos + lx.dashCount + 1) :
                          p < Len(doc) => lx'.styles[p] = lx.state
                    /\ lx'.startSeg >= lx.currentPos + lx.dashCount + 2
                    /\ \/ /\ ~IsRawString(lx'.state)
                          /\ lx'.matchingDelimiter = 0
                          /\ lx'.dashCount = 0
                       \/ /\ UnsafeLower(CharAt(lx.currentPos + lx.dashCount + 2)) = chR
                          /\ lx'.startSeg = lx.currentPos + lx.dashCount + 2
            ELSE /\ lx'.state = lx.state
                 /\ lx'.matchingDelimiter = lx.matchingDelimiter
                 /\ lx'.dashCount = lx.dashCount]_vars

\* a call that started on a later line inside a raw string with one dash has
\* closed the string at the bracket, the dash and the quote
C12_Witness ==
    /\ pc = "done"
    /\ kLine > 0
    /\ UnpackDashCount(lx.lineStates[kLine - 1]) = 1
    /\ lx.matchingDelimiter = 0
    /\ lx.state = SCE_R_DEFAULT
    /\ Len(doc) - LineStart(kLine) = 3
    /\ \A p \in LineStart(kLine)..(Len(doc) - 1) : lx.styles[p] = SCE_R_RAWSTRING_DQ
    /\ CharAt(Len(doc) - 3) = chRParen

\* the opening brackets of a raw string and the bracket that closes each
OpeningBrackets == {chLParen, chLBracket, chLBrace}
CloserOf(ch) ==
    CASE ch = chLParen -> chRParen
      [] ch = chLBracket -> chRBracket
      [] OTHER -> chRBrace
\* the number of dashes in the text from pos on
RECURSIVE DashRun(_)
DashRun(pos) == IF CharAt(pos) = chMinus THEN 1 + DashRun(pos + 1) ELSE 0
\* the raw string state and the string state of a quote
RawStateOf(quote) == IF quote = chSQ THEN SCE_R_RAWSTRING_SQ ELSE SCE_R_RAWSTRING_DQ
StringStateOf(quote) == IF quote = chSQ THEN SCE_R_STRING_SQ ELSE SCE_R_STRING_DQ
\* past the switch, the lexer is in the default state at r or R before a quote
AtRawPrefix(y) ==
    /\ ~y.continue
    /\ y.state = SCE_R_DEFAULT
    /\ UnsafeLower(y.ch) = chR
    /\ y.chNext \in {chSQ, chDQ}
Min(a, b) == IF a < b THEN a ELSE b

\* C13: in the default state, r or R right before a quote starts a raw string
\* of that quote exactly when the quote is followed by n >= 0 dashes and then
\* one of ( [ {.  The iteration then records the matching closing bracket and
\* n, and the raw string segment starts at the prefix letter and the cursor is
\* past the opening bracket, so that the letter, the quote, the dashes and the
\* bracket get the raw string style: whatever is committed from a raw string
\* state has that style.  Otherwise the letter is styled as an identifier, an
\* ordinary string of that quote starts at the quote, and both values are 0.
\* For r"(hello)" lexed from scratch the first iteration records ) and 0 and
\* the string ends on )", all ten characters styled as a raw string.
C13_RawStringStart ==
    [][/\ (pc = "loop" /\ pc' = "loop"
           /\ AtRawPrefix(SwitchState([lx EXCEPT !.continue = FALSE]))) =>
             LET y == SwitchState([lx EXCEPT !.continue = FALSE])
                 p == y.currentPos
                 n == DashRun(p + 2)
                 b == CharAt(p + 2 + n)
             IN  IF b \in OpeningBrackets
                 THEN /\ lx'.state = RawStateOf(y.chNext)
                      /\ lx'.matchingDelimiter = CloserOf(b)
                      /\ lx'.dashCount = n
                      /\ lx'.startSeg = p
                      /\ p < lx.endPos => lx'.currentPos = Min(p + n + 3, lx.endPos)
                 ELSE /\ lx'.state = StringStateOf(y.chNext)
                      /\ lx'.matchingDelimiter = 0
                      /\ lx'.dashCount = 0
                      /\ p < lx.endPos =>
                            /\ lx'.styles[p] = SCE_R_IDENTIFIER
                            /\ lx'.startSeg = p + 1
                            /\ lx'.currentPos = Min(p + 2, lx.endPos)
       /\ (pc = "loop" /\ IsRawString(lx.state)
           /\ (pc' = "done" \/ lx'.startSeg > lx.startSeg)) =>
             \A q \in lx.startSeg..(Min(lx.currentPos, Len(doc)) - 1) :
                lx'.styles[q] = lx.state
       /\ (pc = "loop" /\ doc = RawHello /\ whole.initStyle = SCE_R_DEFAULT
           /\ whole.lengthDoc = Len(doc)) =>
             /\ lx.currentPos = 0 =>
                   /\ lx'.matchingDelimiter = chRParen
                   /\ lx'.dashCount = 0
                   /\ lx'.state = SCE_R_RAWSTRING_DQ
             /\ (lx.currentPos > 0 /\ lx.currentPos < 8) =>
                   lx'.state = SCE_R_RAWSTRING_DQ
             /\ lx.currentPos = 8 =>
                   /\ lx'.state = SCE_R_DEFAULT
                   /\ lx'.startSeg = Len(doc)
                   /\ lx'.matchingDelimiter = 0
             /\ pc' = "done" =>
                   \A q \in 0..(Len(doc) - 1) : lx'.styles[q] = SCE_R_RAWSTRING_DQ]_vars

\* r"(hello)" has been lexed from scratch: all of it is styled as a raw string
\* and the string is closed
C13_Witness ==
    /\ pc = "done"
    /\ doc = RawHello
    /\ kLine = 0
    /\ whole.initStyle = SCE_R_DEFAULT
    /\ whole.lengthDoc = Len(doc)
    /\ lx.state = SCE_R_DEFAULT
    /\ lx.matchingDelimiter = 0
    /\ \A q \in 0..(Len(doc) - 1) : lx.styles[q] = SCE_R_RAWSTRING_DQ

\* an iteration that leaves the identifier state
LeavesIdentifier ==
    /\ pc = "loop"
    /\ pc' = "loop"
    /\ lx.state = SCE_R_IDENTIFIER
    /\ ~IsIdentifierCharEx(lx.ch)
\* the identifier the lexer is in, and whether a dot is right before or after it
IdentifierText == TextRange(lx.startSeg, lx.currentPos)
NextToDot == CharAt(lx.currentPos) = chDot \/ CharAt(lx.startSeg - 1) = chDot
\* the iteration gives every character of the identifier the style
StyledAs(style) ==
    \A q \in lx.startSeg..(lx.currentPos - 1) : q < Len(doc) => lx'.styles[q] = style

\* C14 as the specification states it: an iteration that leaves the identifier
\* state styles the identifier as a keyword if its text is in the keyword list,
\* else as a function if the next character is (, else as an identifier.
C14_Original ==
    [][LeavesIdentifier =>
          IF IdentifierText \in Keywords THEN StyledAs(SCE_R_KEYWORD)
          ELSE IF CharAt(lx.currentPos) = chLParen THEN StyledAs(SCE_R_FUNCTION)
          ELSE StyledAs(SCE_R_IDENTIFIER)]_vars

\* C14, amended: an iteration that leaves the identifier state styles the
\* identifier as a keyword if its text is in the keyword list and no dot stands
\* right before or right after it; else as a function if the character right
\* after it is (; else as an identifier.  A keyword that is not next to a dot
\* is a keyword even before (, and one right after a dot and before ( is a
\* function.
C14_Classify ==
    [][LeavesIdentifier =>
          /\ lx'.state # SCE_R_IDENTIFIER
          /\ lx'.startSeg >= lx.currentPos
          /\ IF IdentifierText \in Keywords /\ ~NextToDot THEN StyledAs(SCE_R_KEYWORD)
             ELSE IF CharAt(lx.currentPos) = chLParen THEN StyledAs(SCE_R_FUNCTION)
             ELSE StyledAs(SCE_R_IDENTIFIER)]_vars

\* a from-scratch call has returned on a word of the keyword list right after
\* a dot and right before a parenthesis, styled as a function
C14_Witness ==
    /\ pc = "done"
    /\ kLine = 0
    /\ whole.initStyle = SCE_R_DEFAULT
    /\ whole.lengthDoc = Len(doc)
    /\ doc = <<chDot, chA, chA, chLParen>>
    /\ <<chA, chA>> \in Keywords
    /\ lx.styles[1] = SCE_R_FUNCTION
    /\ lx.styles[2] = SCE_R_FUNCTION
    /\ lx.styles[3] = SCE_R_OPERATOR

\* every character of the line before position p is whitespace
FirstOnLine(p) == \A q \in LineStart(GetLine(p))..(p - 1) : isspacechar(CharAt(q))

\* C15: when a document has been lexed from scratch, whole or in two calls,
\* a line whose stored line state has the line-comment bit has a # that only
\* whitespace precedes on the line, and a # that starts a run styled as a
\* directive has only whitespace before it on its line, also on a line that
\* begins inside a string.
C15_CommentFirstOnLine ==
    pc \in {"whole", "resumed"} =>
        /\ \A l \in 0..lineDocEnd :
              GetLineCommentState(lx.lineStates[l]) = SimpleLineStateMaskLineComment =>
                  \E p \in LineStart(l)..(LineEnd(l) - 1) :
                      CharAt(p) = chHash /\ FirstOnLine(p)
        /\ \A p \in 0..(Len(doc) - 1) :
              (CharAt(p) = chHash /\ lx.styles[p] = SCE_R_DIRECTIVE
               /\ (p = LineStart(GetLine(p)) \/ lx.styles[p - 1] # SCE_R_DIRECTIVE)) =>
                  FirstOnLine(p)

\* the document "\n"#\n has been lexed from scratch and the line-comment bit
\* is stored for its second line, which starts with the closing quote
C15_Witness ==
    /\ pc = "whole"
    /\ doc = MultiLineComment
    /\ lx.styles[2] = SCE_R_STRING_DQ
    /\ lx.styles[3] = SCE_R_COMMENT
    /\ GetLineCommentState(lx.lineStates[1]) = SimpleLineStateMaskLineComment

(***************************************************************************)
(* FoldSimpleDoc: the fold levels, from the styles and the line states the *)
(* lexer stored.                                                           *)
(***************************************************************************)
SC_FOLDLEVELBASE == 1024
SC_FOLDLEVELHEADERFLAG == 8192
SCE_SIMPLE_OPERATOR == SCE_R_OPERATOR

\* the level words of a document no call has folded
NoLevels == [l \in 0..(lineDocEnd + 1) |-> SC_FOLDLEVELBASE]

\* FoldSimpleDoc with lineCommentPrev left 0 when the call starts on a later line
FoldStart_NoCommentPrev(startPos, lengthDoc, levels) ==
    LET endPos == startPos + lengthDoc
        lineCurrent == GetLine(startPos)
        levelCurrent == IF lineCurrent > 0 THEN ShiftRight(levels[lineCurrent - 1], 16)
                        ELSE SC_FOLDLEVELBASE
    IN  [startPos |-> startPos,
         endPos |-> endPos,
         lineCurrent |-> lineCurrent,
         levelCurrent |-> levelCurrent,
         lineCommentPrev |-> 0,
         levelNext |-> levelCurrent,
         lineCommentCurrent |-> GetLineCommentState(lx.lineStates[lineCurrent]),
         lineStartNext |-> Min(LineStart(lineCurrent + 1), endPos),
         levels |-> levels,
         firstLine |-> lineCurrent,
         before |-> kLine]

\* FoldSimpleDoc up to its loop; firstLine and before are not in the code: the
\* line the call starts at and the number of lines folded before it
FoldStart(startPos, lengthDoc, levels) ==
    LET endPos == startPos + lengthDoc
        lineCurrent == GetLine(startPos)
        levelCurrent == IF lineCurrent > 0 THEN ShiftRight(levels[lineCurrent - 1], 16)
                        ELSE SC_FOLDLEVELBASE
        lineCommentPrev == IF lineCurrent > 0
                           THEN GetLineCommentState(lx.lineStates[lineCurrent - 1])
                           ELSE 0
    IN  [startPos |-> startPos,
         endPos |-> endPos,
         lineCurrent |-> lineCurrent,
         levelCurrent |-> levelCurrent,
         lineCommentPrev |-> lineCommentPrev,
         levelNext |-> levelCurrent,
         lineCommentCurrent |-> GetLineCommentState(lx.lineStates[lineCurrent]),
         lineStartNext |-> Min(LineStart(lineCurrent + 1), endPos),
         levels |-> levels,
         firstLine |-> lineCurrent,
         before |-> kLine]

\* the change of levelNext by the character at startPos counted whatever its style
FoldBracket_AnyStyle(f) ==
    LET ch == CharAt(f.startPos)
    IN  IF ch \in {chLBrace, chLBracket, chLParen}
        THEN [f EXCEPT !.levelNext = f.levelNext + 1]
        ELSE IF ch \in {chRBrace, chRBracket, chRParen}
        THEN [f EXCEPT !.levelNext = f.levelNext - 1]
        ELSE f

\* the change of levelNext by the character at startPos
FoldBracket(f) ==
    LET style == lx.styles[f.startPos]
        ch == CharAt(f.startPos)
    IN  IF style = SCE_SIMPLE_OPERATOR
        THEN IF ch \in {chLBrace, chLBracket, chLParen}
             THEN [f EXCEPT !.levelNext = f.levelNext + 1]
             ELSE IF ch \in {chRBrace, chRBracket, chRParen}
             THEN [f EXCEPT !.levelNext = f.levelNext - 1]
             ELSE f
        ELSE f

SetLevel(levels, line, lev) == [l \in DOMAIN levels |-> IF l = line THEN lev ELSE levels[l]]

\* the end of a line without sci::max(levelNext, SC_FOLDLEVELBASE)
FoldLineEnd_NoClamp(f) ==
    LET lineCommentNext == GetLineCommentState(lx.lineStates[f.lineCurrent + 1])
        levelNext == IF f.lineCommentCurrent # 0
                     THEN f.levelNext + lineCommentNext - f.lineCommentPrev
                     ELSE f.levelNext
        levelUse == f.levelCurrent
        lev == BitOr(levelUse, ShiftLeft(levelNext, 16))
        flagged == IF levelUse < levelNext THEN BitOr(lev, SC_FOLDLEVELHEADERFLAG) ELSE lev
    IN  [f EXCEPT !.levels = SetLevel(f.levels, f.lineCurrent, flagged),
                  !.lineCurrent = f.lineCurrent + 1,
                  !.lineStartNext = Min(LineStart(f.lineCurrent + 2), f.endPos),
                  !.levelCurrent = levelNext,
                  !.levelNext = levelNext,
                  !.lineCommentPrev = f.lineCommentCurrent,
                  !.lineCommentCurrent = lineCommentNext]

\* the end of a line with the comment block adjustment by lineCommentNext alone
FoldLineEnd_NoCommentPrev(f) ==
    LET lineCommentNext == GetLineCommentState(lx.lineStates[f.lineCurrent + 1])
        clamped == IF f.levelNext > SC_FOLDLEVELBASE THEN f.levelNext ELSE SC_FOLDLEVELBASE
        levelNext == IF f.lineCommentCurrent # 0 THEN clamped + lineCommentNext ELSE clamped
        levelUse == f.levelCurrent
        lev == BitOr(levelUse, ShiftLeft(levelNext, 16))
        flagged == IF levelUse < levelNext THEN BitOr(lev, SC_FOLDLEVELHEADERFLAG) ELSE lev
    IN  [f EXCEPT !.levels = SetLevel(f.levels, f.lineCurrent, flagged),
                  !.lineCurrent = f.lineCurrent + 1,
                  !.lineStartNext = Min(LineStart(f.lineCurrent + 2), f.endPos),
                  !.levelCurrent = levelNext,
                  !.levelNext = levelNext,
                  !.lineCommentPrev = f.lineCommentCurrent,
                  !.lineCommentCurrent = lineCommentNext]

\* the end of a line with the level after the line stored as the line's own
FoldLineEnd_LevelUseNext(f) ==
    LET lineCommentNext == GetLineCommentState(lx.lineStates[f.lineCurrent + 1])
        clamped == IF f.levelNext > SC_FOLDLEVELBASE THEN f.levelNext ELSE SC_FOLDLEVELBASE
        levelNext == IF f.lineCommentCurrent # 0
                     THEN clamped + lineCommentNext - f.lineCommentPrev
                     ELSE clamped
        levelUse == levelNext
        lev == BitOr(levelUse, ShiftLeft(levelNext, 16))
        flagged == IF levelUse < levelNext THEN BitOr(lev, SC_FOLDLEVELHEADERFLAG) ELSE lev
    IN  [f EXCEPT !.levels = SetLevel(f.levels, f.lineCurrent, flagged),
                  !.lineCurrent = f.lineCurrent + 1,
                  !.lineStartNext = Min(LineStart(f.lineCurrent + 2), f.endPos),
                  !.levelCurrent = levelNext,
                  !.levelNext = levelNext,
                  !.lineCommentPrev = f.lineCommentCurrent,
                  !.lineCommentCurrent = lineCommentNext]
\* if (++startPos == lineStartNext), with startPos already incremented
FoldLineEnd(f) ==
    LET lineCommentNext == GetLineCommentState(lx.lineStates[f.lineCurrent + 1])
        clamped == IF f.levelNext > SC_FOLDLEVELBASE THEN f.levelNext ELSE SC_FOLDLEVELBASE
        levelNext == IF f.lineCommentCurrent # 0
                     THEN clamped + lineCommentNext - f.lineCommentPrev
                     ELSE clamped
        levelUse == f.levelCurrent
        lev == BitOr(levelUse, ShiftLeft(levelNext, 16))
        flagged == IF levelUse < levelNext THEN BitOr(lev, SC_FOLDLEVELHEADERFLAG) ELSE lev
    IN  [f EXCEPT !.levels = SetLevel(f.levels, f.lineCurrent, flagged),
                  !.lineCurrent = f.lineCurrent + 1,
                  !.lineStartNext = Min(LineStart(f.lineCurrent + 2), f.endPos),
                  !.levelCurrent = levelNext,
                  !.levelNext = levelNext,
                  !.lineCommentPrev = f.lineCommentCurrent,
                  !.lineCommentCurrent = lineCommentNext]

\* one iteration of while (startPos < endPos)
FoldIterate(f) ==
    LET b == FoldBracket(f)
        g == [b EXCEPT !.startPos = b.startPos + 1]
    IN  IF g.startPos = g.lineStartNext THEN FoldLineEnd(g) ELSE g

RECURSIVE FoldLoop(_)
FoldLoop(f) == IF f.startPos < f.endPos THEN FoldLoop(FoldIterate(f)) ELSE f

FoldSimpleDoc(startPos, lengthDoc, levels) == FoldLoop(FoldStart(startPos, lengthDoc, levels))

\* the largest number of tokens of a document that is folded
MaxFoldTokens == 4

FoldTokens ==
    { <<chLF>>,
      <<chHash, chLF>>,
      <<chHash>>,
      <<chLBrace>>,
      <<chRBrace>>,
      <<chDQ>> }

DocsFold ==
    {Flatten(ts) : ts \in UNION {[1..m -> FoldTokens] : m \in 0..MaxFoldTokens}}
        \cup {FunctionText}

(***************************************************************************)
(* SpecFold: a document is lexed from scratch and then folded by calls of  *)
(* FoldSimpleDoc, an iteration of its loop at a time; each call starts at  *)
(* a line start no later than the first line not folded yet (kLine) and    *)
(* ends at a line start or at the end of the document.                     *)
(***************************************************************************)
InitFold ==
    /\ InitBuffer
    /\ doc \in DocsFold
    /\ pc = "text"
    /\ lx = <<>>
    /\ whole = <<>>
    /\ kLine = 0

FoldLex ==
    /\ pc = "text"
    /\ lx' = ColouriseRDoc(0, Len(doc), SCE_R_DEFAULT, NoStyles, NoLineStates)
    /\ whole' = [levels |-> NoLevels, firstLine |-> 0, before |-> 0]
    /\ pc' = "styled"
    /\ UNCHANGED <<doc, kLine>>
    /\ UNCHANGED <<svVars, ref, ub>>

FoldEnter ==
    \E s \in 0..Min(kLine, lineDocEnd) :
        \E e \in (s + 1)..(lineDocEnd + 1) :
            /\ pc = "styled"
            /\ whole' = FoldStart(LineStart(s), LineStart(e) - LineStart(s), whole.levels)
            /\ pc' = "fold"
            /\ UNCHANGED <<doc, lx, kLine>>
            /\ UNCHANGED <<svVars, ref, ub>>

FoldStep ==
    /\ pc = "fold"
    /\ whole.startPos < whole.endPos
    /\ whole' = FoldIterate(whole)
    /\ kLine' = IF whole'.lineCurrent > kLine THEN whole'.lineCurrent ELSE kLine
    /\ UNCHANGED <<doc, pc, lx>>
    /\ UNCHANGED <<svVars, ref, ub>>

\* the return: the levels stay with the document, the locals are gone
FoldReturn ==
    /\ pc = "fold"
    /\ whole.startPos >= whole.endPos
    /\ whole' = [levels |-> whole.levels, firstLine |-> whole.firstLine,
                 before |-> whole.before]
    /\ pc' = "styled"
    /\ UNCHANGED <<doc, lx, kLine>>
    /\ UNCHANGED <<svVars, ref, ub>>

NextFold ==
    \/ FoldLex
    \/ FoldEnter
    \/ FoldStep
    \/ FoldReturn

SpecFold == InitFold /\ [][NextFold]_vars

\* the parts of a level word
StoredLevel(lev) == (lev % Pow2(16)) % SC_FOLDLEVELHEADERFLAG
NextLevel(lev) == ShiftRight(lev, 16)
IsHeader(lev) == BitAnd(lev, SC_FOLDLEVELHEADERFLAG) # 0

\* what the character at pos adds to the running level: 1 for an opening
\* bracket and -1 for a closing bracket of a given style, else 0
BracketDelta(pos, style) ==
    IF style # SCE_R_OPERATOR THEN 0
    ELSE IF CharAt(pos) \in OpeningBrackets THEN 1
    ELSE IF CharAt(pos) \in ClosingBrackets THEN 0 - 1
    ELSE 0

\* C16: an iteration of the loop of FoldSimpleDoc changes the running level
\* levelNext by the character it is at only: by +1 for a { [ or ( and by -1
\* for a } ] or ) that has the operator style, and by nothing for any other
\* character, a bracket of another style included.  Within a line levelNext
\* afterwards is the old value plus that change; at the end of a line the
\* value so changed is what the clamp and the comment adjustment start from.
C16_BracketsOnly ==
    [][(pc = "fold" /\ pc' = "fold") =>
          LET d == BracketDelta(whole.startPos, lx.styles[whole.startPos])
              changed == whole.levelNext + d
              clamped == IF changed > SC_FOLDLEVELBASE THEN changed ELSE SC_FOLDLEVELBASE
          IN  /\ whole'.startPos = whole.startPos + 1
              /\ IF whole'.lineCurrent = whole.lineCurrent
                 THEN whole'.levelNext = changed
                 ELSE /\ whole.lineCommentCurrent = 0 => whole'.levelNext = clamped
                      /\ whole'.levelNext - clamped \in {0 - 1, 0, 1}]_vars

\* a call is past a { that has a comment's or a string's style, still on the
\* first line and at the base level
C16_Witness ==
    /\ pc = "fold"
    /\ whole.startPos > 0
    /\ whole.lineCurrent = 0
    /\ CharAt(whole.startPos - 1) = chLBrace
    /\ lx.styles[whole.startPos - 1] \in {SCE_R_COMMENT, SCE_R_STRING_DQ}
    /\ whole.levelNext = SC_FOLDLEVELBASE

\* when a call has returned, the level word of every folded line is flagged as
\* a header exactly when the line's own level is less than the level carried
\* to the next line
HeaderRule ==
    pc = "styled" =>
        \A l \in 0..(kLine - 1) :
            IsHeader(whole.levels[l]) <=>
                StoredLevel(whole.levels[l]) < NextLevel(whole.levels[l])

\* C17 as the specification states it: when f <- function() {\n  1\n}\n has
\* been lexed and folded from scratch, its first line has level 0 above the
\* base and is a header, its second line has level 1 and is no header, and its
\* third line, which holds the closing brace, has level 0; and every header
\* flag follows the rule.
C17_Original ==
    /\ HeaderRule
    /\ (pc = "styled" /\ doc = FunctionText /\ kLine = 3) =>
          /\ StoredLevel(whole.levels[0]) = SC_FOLDLEVELBASE
          /\ IsHeader(whole.levels[0])
          /\ StoredLevel(whole.levels[1]) = SC_FOLDLEVELBASE + 1
          /\ ~IsHeader(whole.levels[1])
          /\ StoredLevel(whole.levels[2]) = SC_FOLDLEVELBASE

\* C17, amended: when f <- function() {\n  1\n}\n has been lexed and folded
\* from scratch, its first line has level 0 above the base, carries level 1 to
\* the next line and is a header; its second line has level 1 and is no
\* header; its third line, which holds the closing brace, has level 1, is no
\* header and carries level 0 to the line after it; and every header flag
\* follows the rule.
C17_FunctionLevels ==
    /\ HeaderRule
    /\ (pc = "styled" /\ doc = FunctionText /\ kLine = 3) =>
          /\ whole.levels[0] = SC_FOLDLEVELBASE + ShiftLeft(SC_FOLDLEVELBASE + 1, 16)
                                  + SC_FOLDLEVELHEADERFLAG
          /\ whole.levels[1] = SC_FOLDLEVELBASE + 1 + ShiftLeft(SC_FOLDLEVELBASE + 1, 16)
          /\ whole.levels[2] = SC_FOLDLEVELBASE + 1 + ShiftLeft(SC_FOLDLEVELBASE, 16)

\* one call has folded the whole of f <- function() {\n  1\n}\n and the line
\* of the closing brace has level 1 above the base
C17_Witness ==
    /\ pc = "styled"
    /\ doc = FunctionText
    /\ kLine = 3
    /\ whole.firstLine = 0
    /\ whole.before = 0
    /\ IsHeader(whole.levels[0])
    /\ StoredLevel(whole.levels[2]) = SC_FOLDLEVELBASE + 1
    /\ NextLevel(whole.levels[2]) = SC_FOLDLEVELBASE

\* C18: when a document has been lexed from scratch and folded, the level of
\* every folded line and the level its word carries to the next line are both
\* at least SC_FOLDLEVELBASE, whatever closing brackets and comment lines the
\* document has.
C18_LevelsAtLeastBase ==
    pc = "styled" =>
        \A l \in 0..(kLine - 1) :
            /\ StoredLevel(whole.levels[l]) >= SC_FOLDLEVELBASE
            /\ NextLevel(whole.levels[l]) >= SC_FOLDLEVELBASE

\* a document that starts with a closing brace on a line of its own, followed
\* by two comment lines, has been folded: the brace left the level at the
\* base, and the comment block has raised it by one and lowered it again
C18_Witness ==
    /\ pc = "styled"
    /\ doc = <<chRBrace, chLF, chHash, chLF, chHash>>
    /\ kLine = 3
    /\ lx.styles[0] = SCE_R_OPERATOR
    /\ NextLevel(whole.levels[0]) = SC_FOLDLEVELBASE
    /\ StoredLevel(whole.levels[2]) = SC_FOLDLEVELBASE + 1
    /\ NextLevel(whole.levels[2]) = SC_FOLDLEVELBASE

\* line l has the line-comment bit in its stored line state
IsCommentLine(l) ==
    l >= 0 /\ l <= lineDocEnd
    /\ GetLineCommentState(lx.lineStates[l]) = SimpleLineStateMaskLineComment
\* lines a..b are a maximal block of lines with the line-comment bit
CommentBlock(a, b) ==
    /\ a <= b
    /\ \A l \in a..b : IsCommentLine(l)
    /\ ~IsCommentLine(a - 1)
    /\ ~IsCommentLine(b + 1)

\* C19: a maximal block of n consecutive lines with the line-comment bit
\* changes the fold level by nothing in all.  With L the level of its first
\* line: if n >= 2 the first line is a header, every other line of the block
\* has level L + 1 and the last line carries L to the line after the block; if
\* n = 1 the line carries L to the next line and is not a header.
C19_CommentBlock ==
    pc = "styled" =>
        \A a \in 0..(kLine - 1) : \A b \in a..(kLine - 1) :
            CommentBlock(a, b) =>
                LET L == StoredLevel(whole.levels[a])
                IN  IF b > a
                    THEN /\ IsHeader(whole.levels[a])
                         /\ NextLevel(whole.levels[a]) = L + 1
                         /\ \A l \in (a + 1)..b : StoredLevel(whole.levels[l]) = L + 1
                         /\ NextLevel(whole.levels[b]) = L
                    ELSE /\ NextLevel(whole.levels[a]) = L
                         /\ ~IsHeader(whole.levels[a])

\* a block of two comment lines one level inside a brace has been folded
C19_Witness ==
    /\ pc = "styled"
    /\ kLine = 3
    /\ CommentBlock(1, 2)
    /\ StoredLevel(whole.levels[1]) = SC_FOLDLEVELBASE + 1
    /\ IsHeader(whole.levels[1])
    /\ NextLevel(whole.levels[1]) = SC_FOLDLEVELBASE + 2
    /\ StoredLevel(whole.levels[2]) = SC_FOLDLEVELBASE + 2
    /\ NextLevel(whole.levels[2]) = SC_FOLDLEVELBASE + 1

\* the level words one call of FoldSimpleDoc on the whole document stores
WholeLevels == FoldSimpleDoc(0, Len(doc), NoLevels).levels

\* C20: FoldSimpleDoc can be restarted at any line start.  Whatever calls have
\* folded a lexed document up to some line, each starting at line 0 or at the
\* start of a later line k that is already folded or the first not folded (so
\* that it finds its level in the upper 16 bits of the word of line k - 1 and
\* its comment flag in the line state of line k - 1), the word stored for
\* every folded line is the word one call on the whole document stores for
\* it, and the words of the other lines are untouched; folding a range again
\* therefore stores the same words.
C20_Restartable ==
    pc = "styled" =>
        LET w == WholeLevels
        IN  \A l \in DOMAIN whole.levels :
                whole.levels[l] = IF l < kLine THEN w[l] ELSE SC_FOLDLEVELBASE

\* a call that started at the second line of a comment block, when only the
\* lines before it had been folded, has folded the rest of the document, and
\* the levels are those of one call on the whole document
C20_Witness ==
    /\ pc = "styled"
    /\ kLine > 1
    /\ whole.firstLine > 0
    /\ whole.before = whole.firstLine
    /\ kLine > whole.firstLine
    /\ LineStart(kLine) = Len(doc)
    /\ IsCommentLine(whole.firstLine - 1)
    /\ IsCommentLine(whole.firstLine)
    /\ \A l \in 0..(kLine - 1) : whole.levels[l] = WholeLevels[l]
    /\ NextLevel(whole.levels[kLine - 1]) = SC_FOLDLEVELBASE
    /\ StoredLevel(whole.levels[whole.firstLine]) = SC_FOLDLEVELBASE + 1

(***************************************************************************)
(* GapTo: how many elements a move of the gap shifts.                      *)
(***************************************************************************)
\* the slots of body that GapTo(position) leaves with another value
SlotsChanged(sv, position) ==
    {i \in 1..Len(sv.body) : GapTo(sv, position).body[i] # sv.body[i]}

\* GapTo(position) changes neither the length nor the logical element at
\* any position
GapToKeepsContent(sv, position) ==
    /\ Length(GapTo(sv, position)) = Length(sv)
    /\ Logical(GapTo(sv, position)) = Logical(sv)
    /\ GapTo(sv, position).part1Length = position

\* C21 as stated: for every p in [0, length], GapTo(p) moves at most
\* min(p, gapStart) elements toward the start and at most
\* min(length - p, length - gapStart) elements toward the end, and changes
\* neither the length nor any logical element.
C21_Original ==
    ~ub =>
        \A p \in 0..lengthBody :
            /\ p < part1Length
                 => GapToMoved(SV, p) <= Min(p, part1Length)
            /\ p > part1Length
                 => GapToMoved(SV, p)
                      <= Min(lengthBody - p, lengthBody - part1Length)
            /\ GapToKeepsContent(SV, p)

\* C21, amended: for every p in [0, length], GapTo(p) moves exactly the
\* elements between p and gapStart: gapStart - p of them, at most gapStart,
\* toward the start and p - gapStart of them, at most length - gapStart,
\* toward the end; it writes no more slots than it moves elements, and it
\* changes neither the length nor the logical element at any position.
C21_GapToMoves ==
    ~ub =>
        \A p \in 0..lengthBody :
            /\ p < part1Length
                 => /\ GapToMoved(SV, p) = part1Length - p
                    /\ GapToMoved(SV, p) <= part1Length
            /\ p > part1Length
                 => /\ GapToMoved(SV, p) = p - part1Length
                    /\ GapToMoved(SV, p) <= lengthBody - part1Length
            /\ p = part1Length => GapToMoved(SV, p) = 0
            /\ Cardinality(SlotsChanged(SV, p)) <= GapToMoved(SV, p)
            /\ GapToKeepsContent(SV, p)

\* a buffer of two different elements with a gap of one slot at its end:
\* moving the gap to the start shifts both elements, more than the gap holds
C21_Witness ==
    /\ ~ub
    /\ lengthBody = MaxLen
    /\ part1Length = lengthBody
    /\ gapLength = 1
    /\ body[1] # body[2]
    /\ GapToMoved(SV, 0) = MaxLen
    /\ SlotsChanged(SV, 0) # {}

(***************************************************************************)
(* RoomFor step by step: SetGrowSize and InsertEmpty on a buffer of empty  *)
(* elements, with the loop of RoomFor taken one pass at a time.  pc is     *)
(* "idle" between calls and "roomfor" while a call is at the loop; lx      *)
(* holds the arguments of that call and kLine counts the passes of the     *)
(* loop it has made.                                                       *)
(***************************************************************************)
\* the largest logical length the inserts of this specification reach
MaxRoomLen == 14
\* the passes of the loop of RoomFor followed within one call
MaxDoublings == 3
\* growth increments handed to SetGrowSize, zero included
RoomGrowSizes == {0, 1, 8}
\* lengths handed to InsertEmpty
RoomLengths == {0, 1, 6}

\* the condition of the loop of RoomFor
RoomForLoops(sv) == sv.growSize < Len(sv.body) \div 6

InitRoom ==
    /\ InitBuffer
    /\ doc = <<>>
    /\ whole = <<>>
    /\ lx = <<>>
    /\ kLine = 0
    /\ pc = "idle"

\* SetGrowSize(growSize_)
RoomSetGrowSize ==
    \E g \in RoomGrowSizes :
        /\ pc = "idle"
        /\ growSize' = g
        /\ UNCHANGED <<body, lengthBody, part1Length, gapLength, ref, ub>>
        /\ UNCHANGED lexVars

\* InsertEmpty(position, insertLength) up to the loop of RoomFor: the call
\* returns at once on a length that is not positive or a position out of
\* range, fills the gap when the gap is longer than insertLength, and is at
\* the loop otherwise
RoomInsertEmpty ==
    \E position \in {0 - 1, 0, lengthBody}, insertLength \in RoomLengths :
        /\ pc = "idle"
        /\ lengthBody + insertLength <= MaxRoomLen
        /\ IF insertLength > 0 /\ position >= 0 /\ position <= lengthBody
           THEN IF gapLength <= insertLength
                THEN /\ pc' = "roomfor"
                     /\ lx' = [position |-> position,
                               insertLength |-> insertLength]
                     /\ kLine' = 0
                     /\ UNCHANGED <<svVars, ref, ub, doc, whole>>
                ELSE /\ Becomes(FillGap(SV, position, Zeros(insertLength)))
                     /\ UNCHANGED <<ref, ub>>
                     /\ UNCHANGED lexVars
           ELSE UNCHANGED vars

\* one pass of the loop of RoomFor: growSize *= 2
RoomDouble ==
    /\ pc = "roomfor"
    /\ RoomForLoops(SV)
    /\ kLine < MaxDoublings
    /\ growSize' = growSize * 2
    /\ kLine' = kLine + 1
    /\ UNCHANGED <<body, lengthBody, part1Length, gapLength, ref, ub>>
    /\ UNCHANGED <<doc, pc, lx, whole>>

\* the loop of RoomFor is left: ReAllocate(body.size() + insertionLength +
\* growSize), then the rest of InsertEmpty
RoomGrow ==
    /\ pc = "roomfor"
    /\ ~RoomForLoops(SV)
    /\ Becomes(FillGap(ReAllocate(SV, Len(body) + lx.insertLength + growSize),
                       lx.position, Zeros(lx.insertLength)))
    /\ pc' = "idle"
    /\ lx' = <<>>
    /\ kLine' = 0
    /\ UNCHANGED <<ref, ub, doc, whole>>

NextRoom ==
    \/ RoomSetGrowSize
    \/ RoomInsertEmpty
    \/ RoomDouble
    \/ RoomGrow

\* a call that is at the loop goes on running: neither a pass of the loop nor
\* the step that leaves it is put off for ever
SpecRoom ==
    /\ InitRoom
    /\ [][NextRoom]_vars
    /\ WF_vars(RoomDouble)
    /\ WF_vars(RoomGrow)

\* C22: every insert operation terminates: the loop of RoomFor halts in every
\* reachable buffer state, for every growth increment installed with
\* SetGrowSize, zero included. The loop's condition reads growSize and
\* body.size() alone and a pass changes growSize alone, so the loop halts
\* only if every pass leaves growSize larger than it found it.
C22_RoomForTerminates ==
    [][RoomDouble => growSize' > growSize]_vars

\* an insert at the loop of RoomFor with growSize 0 and a vector of six
\* slots or more: a pass has run and has left growSize at 0
C22_Witness ==
    /\ pc = "roomfor"
    /\ kLine >= 1
    /\ growSize = 0
    /\ Len(body) >= 6
    /\ gapLength <= lx.insertLength
    /\ RoomForLoops(SV)

(***************************************************************************)
(* SpecScratch: ColouriseRDoc is called from position 0 in the default     *)
(* style on a document of raw string prefixes, closing sequences and line  *)
(* ends, up to the start of a line or to the end of the document, and runs *)
(* one iteration at a time.                                                *)
(***************************************************************************)
\* the largest number of tokens of a document lexed from scratch step by step
MaxScratchTokens == 3

ScratchTokens ==
    { <<chLF>>,
      <<chR, chDQ, chMinus, chLParen>>,
      <<chRParen, chMinus, chDQ>>,
      <<chRParen>>,
      <<chDQ>>,
      <<82, chSQ, chLBracket>>,      \* R'[
      <<chRBracket, chSQ>>,
      <<chR, chDQ, chMinus>>,
      <<chHash>> }

DocsScratch ==
    {Flatten(ts) : ts \in UNION {[1..m -> ScratchTokens] : m \in 0..MaxScratchTokens}}

InitScratch ==
    /\ InitBuffer
    /\ doc \in DocsScratch
    /\ whole = <<>>
    /\ pc = "call"
    /\ kLine = 0
    /\ lx \in [lengthDoc : {LineStart(l) : l \in 0..lineDocEnd} \cup {Len(doc)},
               initStyle : {SCE_R_DEFAULT},
               seed : {0}]

SpecScratch == InitScratch /\ [][NextTotal]_vars

\* the lexer of an iteration where its line end block is reached: after the
\* switch and the default state block, before the line state is stored
BeforeLineEnd == DefaultState(SwitchState([lx EXCEPT !.continue = FALSE]))

\* the iteration about to run stores a line state
StoresLineState ==
    /\ pc = "loop"
    /\ More(lx)
    /\ ~SwitchState([lx EXCEPT !.continue = FALSE]).continue
    /\ BeforeLineEnd.atLineEnd

\* C23: in a run from scratch, the line state stored at a line end has a
\* matching delimiter other than 0 exactly when the lexer state at that line
\* end is a raw string state; a delimiter other than 0 is one of ) ] }; and
\* with a delimiter of 0 the dash count is 0 too, so that the line state is
\* the line comment bit alone.
C23_LineStateOfRawString ==
    [][StoresLineState =>
          LET line == BeforeLineEnd.currentLine
              stored == lx'.lineStates[line]
              delimiter == UnpackDelimiter(stored)
          IN  /\ lx'.state = BeforeLineEnd.state
              /\ stored = PackLineState(BeforeLineEnd.lineStateLineComment,
                                        BeforeLineEnd.matchingDelimiter,
                                        BeforeLineEnd.dashCount)
              /\ delimiter # 0 <=> IsRawString(lx'.state)
              /\ delimiter # 0 => delimiter \in ClosingBrackets
              /\ delimiter = 0 =>
                    /\ UnpackDashCount(stored) = 0
                    /\ stored = GetLineCommentState(stored)]_vars

\* a run from scratch has returned: its first line ended inside a raw string
\* with one dash, its second line ended after the string was closed
C23_Witness ==
    /\ pc = "done"
    /\ whole.lengthDoc = Len(doc)
    /\ lineDocEnd = 1
    /\ UnpackDelimiter(lx.lineStates[0]) = chRParen
    /\ UnpackDashCount(lx.lineStates[0]) = 1
    /\ lx.lineStates[1] = 0
    /\ lx.styles[Len(doc) - 1] = SCE_R_RAWSTRING_DQ
    /\ lx.state = SCE_R_DEFAULT

====
